---------------------------- MODULE Spec2Model ----------------------------
(***************************************************************************)
(* A model of the data layer of the easyupoo content script                *)
(* (src/content.js): the PersistentCache kept in chrome.storage.local,     *)
(* the platform selection (selectPlatformPrice) and the resolution of one  *)
(* listing (fetchProductDetails / processProduct.fetchAndUpdatePrice).     *)
(*                                                                         *)
(* Time is the value of Date.now(), scaled: one unit of the clock stands   *)
(* for one unit of CACHE_CONFIG.maxAge / MaxAge.  A synchronous stretch of *)
(* JavaScript (between two awaits) is one action and reads one clock       *)
(* value.                                                                  *)
(***************************************************************************)
EXTENDS Integers, Sequences, FiniteSets, TLC

(***************************************************************************)
(* Bounds of the model                                                     *)
(***************************************************************************)
\* listing keys (titleElement.href) are 1..NumKeys
NumKeys == 3
\* stands for CACHE_CONFIG.maxAge (7 days in src/content.js:78), in clock units
MaxAge == 2
\* chrome.storage.local calls that may fail in one behaviour
MaxFails == 1
\* chrome.storage.local writes that may be in flight together
MaxPending == 2
\* calls of get, set, cleanup and clearCache in one behaviour
MaxOps == 2
\* calls of fetchAndUpdatePrice in one behaviour
MaxRuns == 1
\* price texts a price page can show: "10", "20", ...
NumPrices == 2

Keys == 1..NumKeys
\* the calls of fetchAndUpdatePrice under way: one at a time
Reqs == {1}
\* stands for CACHE_CONFIG.maxItems (1000 in src/content.js:79): one key less
\* than there are, so that the cache can overflow
MaxItems == NumKeys - 1
\* stands for the 24 hours of src/content.js:205, in clock units: shorter than
\* maxAge, as in the code
CleanupInterval == MaxAge - 1
\* the clock at construction; the oldest stored entry was written at 1
T0 == MaxAge + 1
MaxTime == T0 + MaxAge

\* CACHE_CONFIG.version, and the version an older build wrote
Version == "1.0.0"
OldVersion == "0.9.0"

(***************************************************************************)
(* Values                                                                  *)
(***************************************************************************)
NA == "N/A"
NoLink == "null"
\* the record fetchProductDetails returns from its catch block
Unavailable == [price |-> NA, link |-> NoLink]
\* JavaScript undefined as a payload: the only falsy payload of the model
Undefined == [undefined |-> TRUE]
\* payloads the cache is exercised with: ResolvedPrice records
SamplePrice == [platform |-> "weidian", price |-> "10", link |-> "w", priority |-> 2]
Payloads == {SamplePrice}

Truthy(v) == v # Undefined

Absent == [present |-> FALSE]
StoredCache(items) == [present |-> TRUE, items |-> items]
StoredMeta(version, lastCleanup) ==
    [present |-> TRUE, version |-> version, lastCleanup |-> lastCleanup]

EmptyMap == [k \in {} |-> Undefined]
Restrict(f, S) == [k \in S |-> f[k]]
\* Put altered: an entry that replaces another keeps the older timestamp
PutMerged(f, k, e) ==
    [x \in DOMAIN f \cup {k} |->
        IF x # k THEN f[x]
        ELSE IF k \in DOMAIN f THEN [e EXCEPT !.timestamp = f[k].timestamp] ELSE e]

\* Put altered: an entry already there stays
PutIfAbsent(f, k, e) == [x \in DOMAIN f \cup {k} |-> IF x \in DOMAIN f THEN f[x] ELSE e]

Put(f, k, e) == [x \in DOMAIN f \cup {k} |-> IF x = k THEN e ELSE f[x]]

VARIABLES
    now,              \* Date.now()
    data,             \* PersistentCache.data: key -> entry
    initialized,      \* PersistentCache.initialized
    ipc,              \* where initialize() is
    currentMetadata,  \* initialize()'s local currentMetadata
    store,            \* chrome.storage.local: productCache and cacheMetadata
    pending,          \* chrome.storage.local calls in flight, oldest first
    fails,            \* chrome.storage.local calls that failed so far
    ops,              \* history: calls of get, set, cleanup, clearCache so far
    last,             \* history: the last cache operation and what it returned
    store0,           \* history: the store at construction
    req,              \* the calls of fetchAndUpdatePrice, one record each
    runs,             \* history: calls of fetchAndUpdatePrice started so far
    rates,            \* CURRENCY_CACHE: rates (the table, or none) and lastUpdate
    call,             \* a call of a pure function: its argument and result
    waiting,          \* get and set calls awaiting initPromise
    initRuns,         \* history: runs of initialize() started so far
    imp,              \* the import of a cache file, and the file last exported
    fx,               \* the calls of fetchExchangeRates, one record each
    bg,               \* the messages the background listener was called with
    pop,              \* the settings popup: the handler under way
    marks             \* BookmarkManager.bookmarks and what getAll returned last

cacheVars == <<now, data, initialized, ipc, currentMetadata, store, pending,
               fails, ops, last, store0>>
uiVars == <<pop, marks>>
sideVars == <<waiting, initRuns, imp, fx, bg, uiVars>>
resVars == <<req, runs, rates, call, sideVars>>
vars == <<cacheVars, resVars>>

(***************************************************************************)
(* PersistentCache                                                         *)
(***************************************************************************)
NewEntry(value, t) == [data |-> value, timestamp |-> t, lastAccessed |-> t]

\* isValidCacheEntry altered: an entry is still valid at exactly maxAge
isValidCacheEntryInclusive(entry, t) ==
    /\ entry.timestamp # 0
    /\ t - entry.timestamp <= MaxAge
    /\ Truthy(entry.data)

isValidCacheEntry(entry, t) ==
    /\ entry.timestamp # 0
    /\ t - entry.timestamp < MaxAge
    /\ Truthy(entry.data)

ValidPart(d, t) == Restrict(d, {k \in DOMAIN d : isValidCacheEntry(d[k], t)})

\* the sequences of keys of d without repetition
RECURSIVE Orders(_)
Orders(S) ==
    IF S = {} THEN {<<>>}
    ELSE UNION {{<<k>> \o s : s \in Orders(S \ {k})} : k \in S}

\* SortedEntries altered: ascending, so that pop() takes the most recent
SortedEntriesAscending(d) ==
    {s \in Orders(DOMAIN d) :
        \A i \in 1..(Len(s) - 1) : d[s[i]].lastAccessed <= d[s[i + 1]].lastAccessed}

\* Array.from(data.entries()).sort((a, b) => b.lastAccessed - a.lastAccessed):
\* the orders a descending sort can give (entries that compare equal keep the
\* Map's insertion order, which the model does not track)
SortedEntries(d) ==
    {s \in Orders(DOMAIN d) :
        \A i \in 1..(Len(s) - 1) : d[s[i]].lastAccessed >= d[s[i + 1]].lastAccessed}

\* OverCapacity altered: the capacity test is off by one
OverCapacityLoose(d) == Cardinality(DOMAIN d) > MaxItems + 1

\* this.data.size > CACHE_CONFIG.maxItems, the test of the if and of the while
OverCapacity(d) == Cardinality(DOMAIN d) > MaxItems

\* while (data.size > maxItems) { data.delete(sortedEntries.pop()) }
RECURSIVE PopWhileOver(_, _)
PopWhileOver(d, s) ==
    IF OverCapacity(d)
    THEN PopWhileOver(Restrict(d, DOMAIN d \ {s[Len(s)]}), SubSeq(s, 1, Len(s) - 1))
    ELSE d

\* phase 2 of cleanup() on the map phase 1 left
EvictResults(d) ==
    IF OverCapacity(d)
    THEN {PopWhileOver(d, s) : s \in SortedEntries(d)}
    ELSE {d}

\* the maps cleanup() can leave in place of d at clock t
CleanupResults(d, t) == EvictResults(ValidPart(d, t))

Deleted(d, r) == Cardinality(DOMAIN d) - Cardinality(DOMAIN r)

\* ShouldPersist altered: cleanup() writes whether or not it deleted
ShouldPersistAlways(deleted) == deleted >= 0

\* if (deleted > 0) await this.persistToStorage()
ShouldPersist(deleted) == deleted > 0

NoOp == [op |-> "none", key |-> 0, found |-> FALSE, val |-> Undefined,
         expired |-> 0, evicted |-> 0, persisted |-> FALSE,
         prevOp |-> "none", prevDeleted |-> 0, raised |-> FALSE]

\* the last operation before this one that was not a get, and what it deleted
PrevOp == IF last.op = "get" THEN last.prevOp ELSE last.op
PrevDeleted == IF last.op = "get" THEN last.prevDeleted ELSE last.expired + last.evicted

\* the history record of a cleanup() that turned d into r at clock t
CleanupRecord(d, r, t) ==
    [NoOp EXCEPT !.op = "cleanup",
                 !.expired = Deleted(d, ValidPart(d, t)),
                 !.evicted = Deleted(ValidPart(d, t), r),
                 !.persisted = ShouldPersist(Deleted(d, r)),
                 !.prevOp = PrevOp, !.prevDeleted = PrevDeleted]

CanFail == fails < MaxFails
Outcome(ok) == ok \/ CanFail
Failed(ok) == IF ok THEN fails ELSE fails + 1

\* VersionMismatch altered: a stored version is never taken as foreign
VersionMismatchNever(metadata) == FALSE

\* currentMetadata.version !== CACHE_CONFIG.version
VersionMismatch(metadata) == metadata.version # Version

(***************************************************************************)
(* initialize(), one action per await                                      *)
(***************************************************************************)
\* await chrome.storage.local.get('cacheMetadata'), then up to the next await
InitReadMeta ==
    /\ ipc = "readMeta"
    /\ \E ok \in BOOLEAN :
        /\ Outcome(ok)
        /\ fails' = Failed(ok)
        /\ IF ~ok
           THEN /\ ipc' = "done"
                /\ initialized' = TRUE
                /\ UNCHANGED <<currentMetadata, data>>
           ELSE LET m == IF store.cacheMetadata.present
                         THEN store.cacheMetadata
                         ELSE StoredMeta(Version, now)
                IN  /\ currentMetadata' = m
                    /\ IF VersionMismatch(m)
                       THEN data' = EmptyMap /\ ipc' = "clear"
                       ELSE UNCHANGED data /\ ipc' = "readCache"
                    /\ UNCHANGED initialized
    /\ UNCHANGED <<ops, now, store, pending, last, store0>>

\* clearCache() called by initialize(): the remove completes or throws
InitClearDone ==
    /\ ipc = "clear"
    /\ \E ok \in BOOLEAN :
        /\ Outcome(ok)
        /\ fails' = Failed(ok)
        /\ IF ok
           THEN /\ store' = [productCache |-> Absent, cacheMetadata |-> Absent]
                /\ currentMetadata' = [currentMetadata EXCEPT !.version = Version]
                /\ ipc' = "readCache"
                /\ UNCHANGED initialized
           ELSE /\ ipc' = "done"
                /\ initialized' = TRUE
                /\ UNCHANGED <<store, currentMetadata>>
    /\ UNCHANGED <<ops, now, data, pending, last, store0>>

\* await chrome.storage.local.get('productCache') and the load loop
InitLoad ==
    /\ ipc = "readCache"
    /\ \E ok \in BOOLEAN :
        /\ Outcome(ok)
        /\ fails' = Failed(ok)
        /\ IF ok
           THEN /\ data' = IF store.productCache.present
                           THEN LET items == store.productCache.items
                                IN  [k \in DOMAIN data \cup DOMAIN ValidPart(items, now) |->
                                        IF k \in DOMAIN ValidPart(items, now)
                                        THEN items[k] ELSE data[k]]
                           ELSE data
                /\ ipc' = IF now - currentMetadata.lastCleanup > CleanupInterval
                          THEN "cleanup" ELSE "writeMeta"
                /\ UNCHANGED initialized
           ELSE /\ ipc' = "done"
                /\ initialized' = TRUE
                /\ UNCHANGED data
    /\ UNCHANGED <<ops, now, currentMetadata, store, pending, last, store0>>

\* cleanup() called by initialize(), up to its await of persistToStorage
InitCleanup ==
    /\ ipc = "cleanup"
    /\ \E r \in CleanupResults(data, now) :
        /\ data' = r
        /\ last' = CleanupRecord(data, r, now)
        /\ IF ShouldPersist(Deleted(data, r))
           THEN /\ ipc' = "cleanupPersist"
                /\ UNCHANGED currentMetadata
           ELSE /\ ipc' = "writeMeta"
                /\ currentMetadata' = [currentMetadata EXCEPT !.lastCleanup = now]
    /\ UNCHANGED <<ops, now, initialized, store, pending, fails, store0>>

\* persistToStorage() of that cleanup(): the write completes, or fails and is logged
InitCleanupPersisted ==
    /\ ipc = "cleanupPersist"
    /\ \E ok \in BOOLEAN :
        /\ Outcome(ok)
        /\ fails' = Failed(ok)
        /\ store' = IF ok THEN [store EXCEPT !.productCache = StoredCache(data)]
                    ELSE store
    /\ currentMetadata' = [currentMetadata EXCEPT !.lastCleanup = now]
    /\ ipc' = "writeMeta"
    /\ UNCHANGED <<ops, now, data, initialized, pending, last, store0>>

\* await chrome.storage.local.set({ cacheMetadata }), then initialized = true
InitWriteMeta ==
    /\ ipc = "writeMeta"
    /\ \E ok \in BOOLEAN :
        /\ Outcome(ok)
        /\ fails' = Failed(ok)
        /\ store' = IF ok THEN [store EXCEPT !.cacheMetadata = currentMetadata]
                    ELSE store
    /\ ipc' = "done"
    /\ initialized' = TRUE
    /\ UNCHANGED <<ops, now, data, currentMetadata, pending, last, store0>>

(***************************************************************************)
(* The operations of an initialized cache (each awaits initPromise first)  *)
(***************************************************************************)
\* what get(key) returns at clock t
GetFound(d, key, t) == key \in DOMAIN d /\ isValidCacheEntry(d[key], t)

\* Touch altered: a read renews the entry
TouchRenews(entry, t) == [entry EXCEPT !.lastAccessed = t, !.timestamp = t]

\* entry.lastAccessed = Date.now()
Touch(entry, t) == [entry EXCEPT !.lastAccessed = t]

\* Ready altered: a call goes on without awaiting initPromise
ReadyAlways == TRUE

\* Ready altered: initPromise never settles
ReadyNever == FALSE

\* await this.initPromise is over: initialize() has returned
Ready == ipc = "done"

\* get(key), from the end of its await of initPromise
CacheGet(key) ==
    /\ Ready
    /\ IF GetFound(data, key, now)
       THEN /\ data' = [data EXCEPT ![key] = Touch(@, now)]
            /\ last' = [NoOp EXCEPT !.op = "get", !.key = key, !.found = TRUE,
                                    !.val = data[key].data, !.prevOp = PrevOp, !.prevDeleted = PrevDeleted]
       ELSE /\ UNCHANGED data
            /\ last' = [NoOp EXCEPT !.op = "get", !.key = key, !.prevOp = PrevOp, !.prevDeleted = PrevDeleted]
    /\ UNCHANGED <<now, initialized, ipc, currentMetadata, store, pending,
                   fails, store0>>

\* set(key, value) up to the await inside persistToStorage; owner is the
\* resolution that awaits the write (0: another client)
CacheSet(key, value, owner) ==
    /\ Ready
    /\ Len(pending) < MaxPending
    /\ data' = Put(data, key, NewEntry(value, now))
    /\ pending' = Append(pending, [op |-> "set", items |-> data', owner |-> owner])
    /\ last' = [NoOp EXCEPT !.op = "set", !.key = key, !.val = value,
                            !.persisted = TRUE, !.prevOp = PrevOp, !.prevDeleted = PrevDeleted]
    /\ UNCHANGED <<now, initialized, ipc, currentMetadata, store, fails, store0>>

\* a client calls get(key)
Get(key) ==
    /\ ops < MaxOps
    /\ ops' = ops + 1
    /\ CacheGet(key)

\* a client calls set(key, value)
Set(key, value) ==
    /\ ops < MaxOps
    /\ ops' = ops + 1
    /\ CacheSet(key, value, 0)

\* cleanup() up to its await of persistToStorage
Cleanup ==
    /\ initialized
    /\ ops < MaxOps
    /\ ops' = ops + 1
    /\ Len(pending) < MaxPending
    /\ \E r \in CleanupResults(data, now) :
        /\ data' = r
        /\ pending' = IF ShouldPersist(Deleted(data, r))
                      THEN Append(pending, [op |-> "cleanup", items |-> r, owner |-> 0])
                      ELSE pending
        /\ last' = CleanupRecord(data, r, now)
    /\ UNCHANGED <<now, initialized, ipc, currentMetadata, store, fails, store0>>

\* clearCache() up to its await of chrome.storage.local.remove
ClearCache ==
    /\ initialized
    /\ ops < MaxOps
    /\ ops' = ops + 1
    /\ Len(pending) < MaxPending
    /\ data' = EmptyMap
    /\ pending' = Append(pending, [op |-> "remove", items |-> EmptyMap, owner |-> 0])
    /\ last' = [NoOp EXCEPT !.op = "clear", !.prevOp = PrevOp, !.prevDeleted = PrevDeleted]
    /\ UNCHANGED <<now, initialized, ipc, currentMetadata, store, fails, store0>>

\* what the oldest call in flight makes of the store when it succeeds
\* Applied altered: the remove leaves cacheMetadata in the store
AppliedKeepsMetadata(s, write) ==
    IF write.op \in {"set", "cleanup"}
    THEN [s EXCEPT !.productCache = StoredCache(write.items)]
    ELSE [s EXCEPT !.productCache = Absent]

\* Applied altered: a written map is added to the stored one, entry by entry
AppliedMerged(s, write) ==
    IF write.op \in {"set", "cleanup"}
    THEN [s EXCEPT !.productCache =
             IF ~s.productCache.present THEN StoredCache(write.items)
             ELSE StoredCache([k \in DOMAIN s.productCache.items \cup DOMAIN write.items |->
                                  IF k \in DOMAIN write.items THEN write.items[k]
                                  ELSE s.productCache.items[k]])]
    ELSE [productCache |-> Absent, cacheMetadata |-> Absent]

Applied(s, write) ==
    IF write.op \in {"set", "cleanup"}
    THEN [s EXCEPT !.productCache = StoredCache(write.items)]
    ELSE [productCache |-> Absent, cacheMetadata |-> Absent]

\* whether a rejection of the call reaches the caller of the operation that
\* made it: persistToStorage awaits its write inside try and catches,
\* clearCache awaits its remove outside any try
Surfaces(write) == write.op = "remove"

\* chrome.storage.local completes the oldest call in flight, or fails it;
\* last.raised tells whether the operation that made the call threw
StoreDone ==
    /\ pending # <<>>
    /\ \E ok \in BOOLEAN :
        /\ Outcome(ok)
        /\ fails' = Failed(ok)
        /\ store' = IF ok THEN Applied(store, Head(pending)) ELSE store
        /\ last' = [last EXCEPT !.raised = ~ok /\ Surfaces(Head(pending))]
    /\ pending' = Tail(pending)
    /\ UNCHANGED <<ops, now, data, initialized, ipc, currentMetadata, store0>>

\* the clock advances
Tick ==
    /\ now < MaxTime
    /\ now' = now + 1
    /\ UNCHANGED <<ops, data, initialized, ipc, currentMetadata, store, pending,
                   fails, last, store0>>

(***************************************************************************)
(* Calls of get and set made while initialize() may still be running       *)
(***************************************************************************)
\* StartsRun altered: waitForInitialization calls initialize() itself
StartsRunAnyCaller(caller) == TRUE

\* who calls initialize(): the constructor, which keeps the promise in
\* initPromise; waitForInitialization only awaits that promise
StartsRun(caller) == caller = "constructor"

\* the calls made of the cache while it starts
BootCalls == [op : {"get", "set"}, key : {1}]

\* get(key) or set(key, value) is called and awaits initPromise
Arrive(c) ==
    /\ c \notin waiting
    /\ ops < MaxOps
    /\ ops' = ops + 1
    /\ waiting' = waiting \cup {c}
    /\ initRuns' = IF StartsRun("waitForInitialization") THEN initRuns + 1 ELSE initRuns
    /\ UNCHANGED <<now, data, initialized, ipc, currentMetadata, store, pending,
                   fails, last, store0, req, runs, rates, call, imp, fx, bg, uiVars>>

\* a call that awaited initPromise goes on
Serve(c) ==
    /\ c \in waiting
    /\ waiting' = waiting \ {c}
    /\ IF c.op = "get" THEN CacheGet(c.key) ELSE CacheSet(c.key, SamplePrice, 0)
    /\ UNCHANGED <<ops, initRuns, req, runs, rates, call, imp, fx, bg, uiVars>>

(***************************************************************************)
(* Export and import of the cache from the settings panel                  *)
(***************************************************************************)
\* JSON.stringify of a cache entry: a property whose value is undefined is
\* left out
ToJson(entry) ==
    IF entry.data = Undefined
    THEN [timestamp |-> entry.timestamp, lastAccessed |-> entry.lastAccessed]
    ELSE entry

\* value[name] of a parsed object: undefined when the property is missing
Field(v, name) == IF name \in DOMAIN v THEN v[name] ELSE Undefined

\* a file as the import reads it: whether JSON.parse takes it, data.version,
\* and data.items when there is one (the file's timestamp is never read)
NoFile == [parses |-> FALSE, version |-> "none", hasItems |-> FALSE, items |-> EmptyMap]
File(version, items) ==
    [parses |-> TRUE, version |-> version, hasItems |-> TRUE, items |-> items]

\* the file exportCache() makes of the in-memory map d
exportCache(d) == File(Version, [k \in DOMAIN d |-> ToJson(d[k])])

\* files written by hand or by another build: one that is not JSON, one of
\* another version, one without items, one with an item without data
ForeignFiles ==
    {NoFile,
     File(OldVersion, [k \in {1} |-> NewEntry(SamplePrice, 1)]),
     [File(Version, EmptyMap) EXCEPT !.hasItems = FALSE],
     File(Version, [k \in {1, 2} |->
                      IF k = 1 THEN NewEntry(Unavailable, 1)
                      ELSE [timestamp |-> 1, lastAccessed |-> 1]])}

ImpIdle == [pc |-> "idle", file |-> NoFile, left |-> {}, outcome |-> "none",
            before |-> [data |-> EmptyMap, store |-> Absent],
            exported |-> NoFile, exportedFrom |-> EmptyMap]

\* ImportedValue altered: the whole stored entry is taken as the payload
ImportedValueWhole(value) == value

\* value.data of an item of the file
ImportedValue(value) == Field(value, "data")

\* the first key of Object.entries over the keys left
FirstKey(S) == CHOOSE k \in S : \A j \in S : k <= j

\* the Export Cache button
ExportCache ==
    /\ imp.pc = "idle"
    /\ ~imp.exported.parses
    /\ imp' = [imp EXCEPT !.exported = exportCache(data), !.exportedFrom = data]
    /\ UNCHANGED <<cacheVars, req, runs, rates, call, waiting, initRuns, fx, bg, uiVars>>

\* the import handler from the file chosen to its first await on the store:
\* JSON.parse, the version test, and clearCache() up to its remove
ImportChosen(f) ==
    /\ imp.pc = "idle"
    /\ initialized
    /\ LET rec == [imp EXCEPT !.file = f, !.before = [data |-> data, store |-> store]]
       IN IF ~f.parses \/ f.version # Version
          THEN /\ imp' = [rec EXCEPT !.pc = "done", !.outcome = "rejected"]
               /\ UNCHANGED <<data, pending>>
          ELSE /\ Len(pending) < MaxPending
               /\ data' = EmptyMap
               /\ pending' = Append(pending, [op |-> "remove", items |-> EmptyMap, owner |-> 0])
               /\ imp' = [rec EXCEPT !.pc = "clearing"]
    /\ UNCHANGED <<now, initialized, ipc, currentMetadata, store, fails, ops, last,
                   store0, req, runs, rates, call, waiting, initRuns, fx, bg, uiVars>>

\* the loop of the import from the keys left: the next productCache.set up
\* to its write, or the end of the import
ImportLoop(rec, kept) ==
    IF rec.left = {}
    THEN /\ imp' = [rec EXCEPT !.pc = "done", !.outcome = "imported"]
         /\ pending' = kept
         /\ UNCHANGED data
    ELSE LET k == FirstKey(rec.left) IN
         /\ data' = Put(data, k, NewEntry(ImportedValue(rec.file.items[k]), now))
         /\ pending' = Append(kept, [op |-> "set", items |-> data', owner |-> 0])
         /\ imp' = [rec EXCEPT !.pc = "setting", !.left = @ \ {k}]

\* the remove of clearCache() settles: a rejection or a file without items
\* throws into the catch block, otherwise the loop starts
ImportCleared ==
    /\ imp.pc = "clearing"
    /\ pending # <<>>
    /\ \E ok \in BOOLEAN :
        /\ Outcome(ok)
        /\ fails' = Failed(ok)
        /\ store' = IF ok THEN Applied(store, Head(pending)) ELSE store
        /\ IF ~ok \/ ~imp.file.hasItems
           THEN /\ imp' = [imp EXCEPT !.pc = "done", !.outcome = "rejected"]
                /\ pending' = Tail(pending)
                /\ UNCHANGED data
           ELSE ImportLoop([imp EXCEPT !.left = DOMAIN imp.file.items], Tail(pending))
    /\ UNCHANGED <<now, initialized, ipc, currentMetadata, ops, last, store0,
                   req, runs, rates, call, waiting, initRuns, fx, bg, uiVars>>

\* the write of a productCache.set of the loop settles, failed or not
ImportItemStored ==
    /\ imp.pc = "setting"
    /\ pending # <<>>
    /\ \E ok \in BOOLEAN :
        /\ Outcome(ok)
        /\ fails' = Failed(ok)
        /\ store' = IF ok THEN Applied(store, Head(pending)) ELSE store
    /\ ImportLoop(imp, Tail(pending))
    /\ UNCHANGED <<now, initialized, ipc, currentMetadata, ops, last, store0,
                   req, runs, rates, call, waiting, initRuns, fx, bg, uiVars>>

(***************************************************************************)
(* JavaScript numbers: IEEE 754 doubles                                    *)
(*                                                                         *)
(* A whole number is a sequence of limbs, lowest first, each below 4096     *)
(* (three hexadecimal digits).  A positive double is [m, e] with value      *)
(* m * 2^e, where m is a whole number of exactly 53 bits in five limbs.     *)
(***************************************************************************)
MantissaBits == 53
LimbBits == 12
Base == 2^LimbBits
MantissaLimbs == 5

Limb(a, i) == IF i \in 1..Len(a) THEN a[i] ELSE 0

\* the limbs of a whole number below Base^2
NatLimbs(n) == <<n % Base, n \div Base>>

\* the limbs of a whole number written in hexadecimal, highest digit first
HexLimbs(h) ==
    LET digit(k) == IF k < Len(h) THEN h[Len(h) - k] ELSE 0
    IN [j \in 1..((Len(h) + 2) \div 3) |->
            digit(3 * j - 3) + 16 * digit(3 * j - 2) + 256 * digit(3 * j - 1)]

\* bit i of a, the lowest being bit 0
Bit(a, i) == (Limb(a, (i \div LimbBits) + 1) \div 2^(i % LimbBits)) % 2

\* the number of bits of a positive whole number
BitLen(a) ==
    LET top == CHOOSE t \in 1..Len(a) :
                   a[t] # 0 /\ \A u \in (t + 1)..Len(a) : a[u] = 0
        k == CHOOSE n \in 1..LimbBits : 2^(n - 1) <= a[top] /\ a[top] < 2^n
    IN (top - 1) * LimbBits + k

\* a \div 2^k and a * 2^k
Shr(a, k) ==
    LET q == k \div LimbBits
        r == k % LimbBits
    IN [j \in 1..Len(a) |->
            (Limb(a, j + q) \div 2^r) + (Limb(a, j + q + 1) % 2^r) * 2^(LimbBits - r)]

Shl(a, k) ==
    LET q == k \div LimbBits
        r == k % LimbBits
    IN [j \in 1..(Len(a) + q + 1) |->
            ((Limb(a, j - q) * 2^r) % Base) + (Limb(a, j - q - 1) \div 2^(LimbBits - r))]

\* the limbs of the number whose columns are cols, carries propagated
RECURSIVE Carried(_, _)
Carried(cols, carry) ==
    IF cols = <<>> THEN (IF carry = 0 THEN <<>> ELSE <<carry>>)
    ELSE LET t == Head(cols) + carry
         IN <<t % Base>> \o Carried(Tail(cols), t \div Base)

\* a + k for a small k
Plus(a, k) == Carried([j \in 1..Len(a) |-> IF j = 1 THEN a[j] + k ELSE a[j]], 0)

RECURSIVE Column(_, _, _, _)
Column(a, b, k, i) ==
    IF i > Len(a) THEN 0 ELSE a[i] * Limb(b, k + 1 - i) + Column(a, b, k, i + 1)

\* a * b
Mul(a, b) == Carried([k \in 1..(Len(a) + Len(b)) |-> Column(a, b, k, 1)], 0)

\* the double nearest to a * 2^e, ties to the even mantissa
RoundToDouble(a, e) ==
    LET drop == BitLen(a) - MantissaBits
        Five(x) == [j \in 1..MantissaLimbs |-> Limb(x, j)]
    IN IF drop <= 0
       THEN [m |-> Five(Shl(a, -drop)), e |-> e + drop]
       ELSE LET kept == Shr(a, drop)
                half == Bit(a, drop - 1) = 1
                below == \E i \in 0..(drop - 2) : Bit(a, i) = 1
                up == half /\ (below \/ Bit(a, drop) = 1)
                r == IF up THEN Plus(kept, 1) ELSE kept
            IN IF BitLen(r) > MantissaBits
               THEN [m |-> Five(Shr(r, 1)), e |-> e + drop + 1]
               ELSE [m |-> Five(r), e |-> e + drop]

\* the double of a whole number, and of a hexadecimal mantissa
DoubleOfNat(n) == RoundToDouble(NatLimbs(n), 0)
DoubleOfHex(h, e) == RoundToDouble(HexLimbs(h), e)

\* x * y in JavaScript
Times(x, y) == RoundToDouble(Mul(x.m, y.m), x.e + y.e)

(***************************************************************************)
(* selectPlatformPrice                                                     *)
(***************************************************************************)
Platforms == {"taobao", "weidian"}
\* PLATFORM_CONFIG.platforms[p].priority
Priority == [taobao |-> 1, weidian |-> 2]
\* the link the listing page names for a platform
LinkOf == [taobao |-> "item.taobao.com/item.htm?id=1",
           weidian |-> "weidian.com/item.html?itemID=1"]
PriceTexts == {ToString(10 * i) : i \in 1..NumPrices}

\* JavaScript truthiness of a link: null and the empty string are falsy
TruthyLink(l) == l \notin {NoLink, ""}

\* the filter and the map of selectPlatformPrice
availablePrices(prices) ==
    {[platform |-> p, price |-> prices[p].price, link |-> prices[p].link,
      priority |-> Priority[p]] :
        p \in {q \in DOMAIN prices :
                  prices[q].price # NA /\ TruthyLink(prices[q].link)}}

\* the platform a sort by descending priority value puts first
highestPriorityDescending ==
    CHOOSE p \in Platforms : \A q \in Platforms : Priority[p] >= Priority[q]

\* Object.entries(platforms).sort((a, b) => a.priority - b.priority)[0][0]
highestPriority ==
    CHOOSE p \in Platforms : \A q \in Platforms : Priority[p] <= Priority[q]

\* the record a sort by descending priority value puts first
FirstByPriorityDescending(available) ==
    CHOOSE a \in available : \A b \in available : a.priority >= b.priority

\* availablePrices.sort((a, b) => a.priority - b.priority)[0]
FirstByPriority(available) ==
    CHOOSE a \in available : \A b \in available : a.priority <= b.priority

selectPlatformPrice(prices) ==
    IF availablePrices(prices) = {}
    THEN IF highestPriority \in DOMAIN prices
         THEN prices[highestPriority]
         ELSE Unavailable
    ELSE FirstByPriority(availablePrices(prices))

\* the prices maps selectPlatformPrice is called with: a platform has no
\* record, or a record with any price and any link
PriceRecords(p) ==
    [price : {NA} \cup PriceTexts, link : {NoLink, "", LinkOf[p]}]
PricesMaps ==
    {m \in UNION {[S -> UNION {PriceRecords(p) : p \in S}] : S \in SUBSET Platforms} :
        \A p \in DOMAIN m : m[p] \in PriceRecords(p)}

NoCall == [fn |-> "none", arg |-> Undefined, ret |-> Undefined, done |-> FALSE]

\* selectPlatformPrice(call.arg) returns
ApplySelect ==
    /\ call.fn = "selectPlatformPrice"
    /\ ~call.done
    /\ call' = [call EXCEPT !.ret = selectPlatformPrice(call.arg), !.done = TRUE]
    /\ UNCHANGED <<cacheVars, req, runs, rates, sideVars>>

(***************************************************************************)
(* Agent fee and currency conversion                                       *)
(***************************************************************************)
\* the literals of calculateAgentFee as doubles: 1.0238, 1.02, 1.04, 1.03
FeeSuperbuy == DoubleOfHex(<<1, 0, 6, 1, 7, 12, 1, 11, 13, 10, 5, 1, 1, 10>>, -52)
FeeCssbuy == DoubleOfHex(<<1, 0, 5, 1, 14, 11, 8, 5, 1, 14, 11, 8, 5, 2>>, -52)
FeeAllchinabuy == DoubleOfHex(<<1, 0, 10, 3, 13, 7, 0, 10, 3, 13, 7, 0, 10, 4>>, -52)
FeeDefault == DoubleOfHex(<<1, 0, 7, 10, 14, 1, 4, 7, 10, 14, 1, 4, 7, 11>>, -52)

\* agent identifiers: the keys of PLATFORM_CONFIG.agents, and one written
\* with capitals
Agents == {"superbuy", "allchinabuy", "cssbuy", "cnfans", "mulebuy", "hoobuy",
           "SuperBuy"}

\* String.prototype.toLowerCase on the identifiers and codes of the model
toLowerCase(str) ==
    CASE str = "SuperBuy" -> "superbuy"
      [] str = "USD" -> "usd"
      [] OTHER -> str

calculateAgentFee(price, agent) ==
    CASE toLowerCase(agent) = "superbuy" -> Times(price, FeeSuperbuy)
      [] toLowerCase(agent) = "cssbuy" -> Times(price, FeeCssbuy)
      [] toLowerCase(agent) = "allchinabuy" -> Times(price, FeeAllchinabuy)
      [] OTHER -> Times(price, FeeDefault)

\* Number(x.toFixed(2)): the number of hundredths nearest to the exact value
\* of the double x, the larger one of two equally near; the result is the
\* double nearest to that many hundredths
Fixed2(x) ==
    LET scaled == Mul(x.m, NatLimbs(100))
        k == 0 - x.e
        n == IF k <= 0 THEN Shl(scaled, x.e)
             ELSE Plus(Shr(scaled, k), Bit(scaled, k - 1))
    IN [hundredths |-> n[1] + Base * n[2]]

\* a code a table has no property for
NoRate == [undefined |-> TRUE]
\* CURRENCY_CACHE.rates before any table is loaded, or after a body without cny
NoTable == [undefined |-> TRUE]
\* currency codes a table can hold, and the target codes convertCurrency is
\* called with
Codes == {"usd", "eur"}
Targets == Codes \cup {"USD"}
\* tables a source can answer with: rates 0.1378 and 0.1299, and one
\* without eur
SampleRates ==
    [usd |-> DoubleOfHex(<<1, 1, 10, 3, 6, 14, 2, 14, 11, 1, 12, 4, 3, 3>>, -55),
     eur |-> DoubleOfHex(<<1, 0, 10, 0, 9, 0, 2, 13, 14, 0, 0, 13, 1, 11>>, -55)]
PartialRates ==
    [usd |-> DoubleOfHex(<<1, 0, 10, 0, 9, 0, 2, 13, 14, 0, 0, 13, 1, 11>>, -55),
     eur |-> NoRate]
Tables == {SampleRates, PartialRates}

NoRates == [loaded |-> FALSE, lastUpdate |-> 0, table |-> NoTable]

\* calculateAgentFee(price, agent) is called
ApplyFee ==
    /\ call.fn = "calculateAgentFee"
    /\ ~call.done
    /\ call' = [call EXCEPT !.ret = calculateAgentFee(call.arg.price, call.arg.agent),
                            !.done = TRUE]
    /\ UNCHANGED <<cacheVars, req, runs, rates, sideVars>>

\* convertCurrency altered: without a rate the amount becomes nothing
convertCurrencyStrict(amount, toCurrency, cache) ==
    IF ~cache.loaded THEN [hundredths |-> 0]
    ELSE LET rate == cache.table[toLowerCase(toCurrency)]
         IN IF rate = NoRate THEN [hundredths |-> 0]
            ELSE Fixed2(Times(amount, rate))

\* convertCurrency(amount, 'cny', toCurrency) over CURRENCY_CACHE
convertCurrency(amount, toCurrency, cache) ==
    IF ~cache.loaded THEN amount
    ELSE LET rate == cache.table[toLowerCase(toCurrency)]
         IN IF rate = NoRate THEN amount
            ELSE Fixed2(Times(amount, rate))

\* convertCurrency(amount, 'cny', toCurrency) is called
ApplyConvert ==
    /\ call.fn = "convertCurrency"
    /\ ~call.done
    /\ call' = [call EXCEPT !.ret = convertCurrency(call.arg.amount, call.arg.to, rates),
                            !.done = TRUE]
    /\ UNCHANGED <<cacheVars, req, runs, rates, sideVars>>

(***************************************************************************)
(* fetchExchangeRates and its callers                                      *)
(***************************************************************************)
\* stands for CURRENCY_CACHE.updateInterval (1 hour), in clock units
UpdateInterval == 1
\* the urls fetchExchangeRates tries in order
NumSources == 2

\* who calls fetchExchangeRates: loadPreferences at start, and
\* fetchAndUpdatePrice before it shows a price
Callers == {"loadPreferences", "fetchAndUpdatePrice"}

\* what fetch(url) comes to, and what response.json() comes to: a table
\* under cny, an object without cny, or a rejection
FetchOutcomes == {"ok", "notOk", "rejects"}
Bodies == {[kind |-> "table", cny |-> tb] : tb \in Tables}
              \cup {[kind |-> k, cny |-> NoTable] : k \in {"no cny", "rejects"}}

\* price texts fetchAndUpdatePrice shows, as parseFloat reads them
ShownPrices == {10, 100}

\* badge.textContent as a symbol and an amount: nothing shown yet, and
\* 'Error'
NoBadge == [symbol |-> "", amount |-> NoRate]
ErrorBadge == [symbol |-> "Error", amount |-> NoRate]

\* src is the place in urls of the source awaited, sent the sources
\* contacted so far
FxIdle == [pc |-> "idle", src |-> 0, ret |-> "none", sent |-> <<>>,
           amount |-> NoRate, to |-> "", badge |-> NoBadge]

\* RatesFresh altered: a loaded table is returned whatever its age
RatesFreshAnyAge(t) == rates.loaded /\ rates.lastUpdate # 0

\* the condition under which fetchExchangeRates returns CURRENCY_CACHE.rates
RatesFresh(t) == rates.loaded /\ rates.lastUpdate # 0 /\ t - rates.lastUpdate < UpdateInterval

\* formatCurrency(amount, currency)
formatCurrency(amount, currency) ==
    [symbol |-> IF toLowerCase(currency) = "usd" THEN "$" ELSE "E", amount |-> amount]

\* the caller once fetchExchangeRates has returned or thrown: fetchAndUpdatePrice
\* converts with CURRENCY_CACHE as it then is and shows the price, or shows
\* 'Error' from its catch block; loadPreferences logs
Resumed(rec, c, ret, cache) ==
    LET done == [rec EXCEPT !.pc = "done", !.ret = ret] IN
    IF c # "fetchAndUpdatePrice" THEN done
    ELSE IF ret = "throws" THEN [done EXCEPT !.badge = ErrorBadge]
    ELSE [done EXCEPT !.badge =
              formatCurrency(convertCurrency(rec.amount, rec.to, cache), rec.to)]

\* Urls altered: the sources are listed last first
UrlsReversed == [i \in 1..NumSources |-> NumSources + 1 - i]

\* urls: the sources in the order they are listed, source 1 being jsdelivr
Urls == [i \in 1..NumSources |-> i]

\* c calls fetchExchangeRates, up to its return of the cached table or its
\* first await fetch(url)
FxCall(c, price, agent, to) ==
    /\ fx[c].pc = "idle"
    /\ LET rec == IF c = "fetchAndUpdatePrice"
                  THEN [fx[c] EXCEPT !.amount = calculateAgentFee(DoubleOfNat(price), agent),
                                     !.to = to]
                  ELSE fx[c]
       IN IF RatesFresh(now)
          THEN fx' = [fx EXCEPT ![c] = Resumed(rec, c, "table", rates)]
          ELSE fx' = [fx EXCEPT ![c] = [rec EXCEPT !.pc = "fetch", !.src = 1,
                                                   !.sent = <<Urls[1]>>]]
    /\ UNCHANGED <<cacheVars, req, runs, rates, call, waiting, initRuns, imp, bg, uiVars>>

\* WhenExhausted altered: a table in place is returned in spite of its age
WhenExhaustedStale == IF rates.loaded THEN "table" ELSE "throws"

\* throw new Error('Failed to fetch exchange rates from all sources')
WhenExhausted == "throws"

\* the source failed: the next url is fetched, or the function throws
NextSource(c) ==
    IF fx[c].src < NumSources
    THEN fx' = [fx EXCEPT ![c].pc = "fetch", ![c].src = @ + 1,
                          ![c].sent = Append(@, Urls[fx[c].src + 1])]
    ELSE fx' = [fx EXCEPT ![c] = Resumed(fx[c], c, WhenExhausted, rates)]

\* await fetch(url) settles
FxFetchSettles(c, outcome) ==
    /\ fx[c].pc = "fetch"
    /\ IF outcome = "ok"
       THEN fx' = [fx EXCEPT ![c].pc = "json"]
       ELSE NextSource(c)
    /\ UNCHANGED <<cacheVars, req, runs, rates, call, waiting, initRuns, imp, bg, uiVars>>

\* await response.json() settles
FxJsonSettles(c, body) ==
    /\ fx[c].pc = "json"
    /\ IF body.kind = "rejects"
       THEN NextSource(c) /\ UNCHANGED rates
       ELSE /\ rates' = [loaded |-> body.kind = "table", lastUpdate |-> now,
                         table |-> body.cny]
            /\ fx' = [fx EXCEPT ![c] =
                        Resumed(fx[c], c,
                                IF body.kind = "table" THEN "table" ELSE "undefined",
                                rates')]
    /\ UNCHANGED <<cacheVars, req, runs, call, waiting, initRuns, imp, bg, uiVars>>

(***************************************************************************)
(* The background listener (src/unnamed/part_000)                           *)
(***************************************************************************)
\* the messages a behaviour follows, their types and the urls asked for
Msgs == {1, 2}
MsgTypes == {"fetchPrice", "other"}
MsgUrls == {"taobao/1", "weidian/2"}
\* the statuses the upstream answers with
Statuses == {200, 404, 500}

\* status is the status the fetch resolved with (0: none yet), sent the
\* calls of sendResponse so far, open whether the listener returned true
BgIdle == [pc |-> "idle", type |-> "", url |-> "", status |-> 0, sent |-> <<>>,
           open |-> FALSE]

\* ResponseOk altered: any status passes
ResponseOkAlways(status) == TRUE

\* response.ok
ResponseOk(status) == status \in 200..299

\* the text of the page at url, and the messages of the errors
Html(url) == [html |-> url]
HttpError(status) == [message |-> "HTTP error! status", status |-> status]
NetworkError == [message |-> "Failed to fetch", status |-> 0]
BodyError == [message |-> "body stream", status |-> 0]

\* the catch callback: sendResponse({ success: false, error: error.message })
Caught(rec, error) ==
    [rec EXCEPT !.pc = "done",
                !.sent = Append(@, [success |-> FALSE, error |-> error])]

\* the listener is called with a message, up to its return
BgMessage(m, type, url) ==
    /\ bg[m].pc = "idle"
    /\ bg' = [bg EXCEPT ![m] =
                 IF type = "fetchPrice"
                 THEN [BgIdle EXCEPT !.pc = "fetch", !.type = type, !.url = url,
                                     !.open = TRUE]
                 ELSE [BgIdle EXCEPT !.pc = "done", !.type = type, !.url = url]]
    /\ UNCHANGED <<cacheVars, req, runs, rates, call, waiting, initRuns, imp, fx, uiVars>>

\* fetch(request.url) resolves with a response: the first then callback
BgFetchResponds(m, status) ==
    /\ bg[m].pc = "fetch"
    /\ IF ResponseOk(status)
       THEN bg' = [bg EXCEPT ![m].pc = "text", ![m].status = status]
       ELSE bg' = [bg EXCEPT ![m] =
                     Caught([bg[m] EXCEPT !.status = status], HttpError(status))]
    /\ UNCHANGED <<cacheVars, req, runs, rates, call, waiting, initRuns, imp, fx, uiVars>>

\* fetch(request.url) rejects
BgFetchRejects(m) ==
    /\ bg[m].pc = "fetch"
    /\ bg' = [bg EXCEPT ![m] = Caught(bg[m], NetworkError)]
    /\ UNCHANGED <<cacheVars, req, runs, rates, call, waiting, initRuns, imp, fx, uiVars>>

\* response.text() resolves: the second then callback
BgTextArrives(m) ==
    /\ bg[m].pc = "text"
    /\ bg' = [bg EXCEPT ![m].pc = "done",
                        ![m].sent = Append(@, [success |-> TRUE, data |-> Html(bg[m].url)])]
    /\ UNCHANGED <<cacheVars, req, runs, rates, call, waiting, initRuns, imp, fx, uiVars>>

\* response.text() rejects
BgTextRejects(m) ==
    /\ bg[m].pc = "text"
    /\ bg' = [bg EXCEPT ![m] = Caught(bg[m], BodyError)]
    /\ UNCHANGED <<cacheVars, req, runs, rates, call, waiting, initRuns, imp, fx, uiVars>>

(***************************************************************************)
(* The settings popup (src/popup.js): the handlers that notify tabs        *)
(***************************************************************************)
\* the tabs chrome.tabs.query can answer with
Tabs == {1, 2}
\* what a call of chrome.storage.local.set or chrome.tabs.sendMessage in the
\* popup comes to
Settled == {"resolves", "rejects"}

\* handler is the listener under way ("save": the click on save-button,
\* "dark": the change of dark-mode), tabs the answer of chrome.tabs.query,
\* i the tab being sent to, notified the tabs the message reached, skipped
\* the tabs whose rejection was caught, closed whether window.close() ran,
\* file the file chosen for an import, removed the productCache a clear
\* found in the store (history); pc "threw": the handler ended in a
\* rejection nobody caught, pc "alerted": the import's catch block ran
PopIdle == [handler |-> "none", pc |-> "idle", tabs |-> <<>>, i |-> 0,
            notified |-> {}, skipped |-> {}, closed |-> FALSE, file |-> NoFile,
            removed |-> Absent]

\* what the query of a handler can answer: the active tab of the current
\* window (at most one) for save, every tab for dark-mode
QueryAnswers(handler) ==
    IF handler = "save" THEN {<<>>, <<1>>, <<2>>}
    ELSE {<<>>, <<1>>, <<2>>, <<1, 2>>, <<2, 1>>}

\* the tabs a handler sends to: tabs[0] when it has an id for save, every
\* tab of the answer for dark-mode
SendTo(handler, tabs) ==
    IF handler = "save" /\ tabs # <<>> THEN <<tabs[1]>> ELSE tabs

\* the handler has nothing left to send: save closes the popup
Finished(rec) ==
    [rec EXCEPT !.pc = "done", !.closed = (rec.handler = "save")]

\* the user clicks save-button or changes dark-mode: up to the await of
\* chrome.storage.local.set
PopHandle(handler) ==
    /\ pop.pc = "idle"
    /\ pop' = [PopIdle EXCEPT !.handler = handler, !.pc = "set"]
    /\ UNCHANGED <<cacheVars, req, runs, rates, call, waiting, initRuns, imp, fx,
                   bg, marks>>

\* chrome.storage.local.set settles; the handler goes on to chrome.tabs.query
PopSetSettles(outcome) ==
    /\ pop.pc = "set"
    /\ pop' = [pop EXCEPT !.pc = IF outcome = "resolves" THEN "query" ELSE "threw"]
    /\ UNCHANGED <<cacheVars, req, runs, rates, call, waiting, initRuns, imp, fx,
                   bg, marks>>

\* chrome.tabs.query answers; the handler sends to its first tab, if any
PopQueryAnswers(tabs) ==
    /\ pop.pc = "query"
    /\ tabs \in QueryAnswers(pop.handler)
    /\ LET to == SendTo(pop.handler, tabs)
       IN pop' = IF to = <<>>
                 THEN Finished([pop EXCEPT !.tabs = to])
                 ELSE [pop EXCEPT !.tabs = to, !.pc = "send", !.i = 1]
    /\ UNCHANGED <<cacheVars, req, runs, rates, call, waiting, initRuns, imp, fx,
                   bg, marks>>

\* whether the await of chrome.tabs.sendMessage stands in a try block
CatchesSend(handler) == handler = "dark"

\* chrome.tabs.sendMessage settles for the tab being sent to
PopSendSettles(outcome) ==
    /\ pop.pc = "send"
    /\ LET tab == pop.tabs[pop.i]
           after == IF outcome = "resolves"
                    THEN [pop EXCEPT !.notified = @ \cup {tab}]
                    ELSE [pop EXCEPT !.skipped = @ \cup {tab}]
       IN pop' = IF outcome = "rejects" /\ ~CatchesSend(pop.handler)
                 THEN [pop EXCEPT !.pc = "threw"]
                 ELSE IF pop.i = Len(pop.tabs)
                 THEN Finished(after)
                 ELSE [after EXCEPT !.i = pop.i + 1]
    /\ UNCHANGED <<cacheVars, req, runs, rates, call, waiting, initRuns, imp, fx,
                   bg, marks>>

\* if (!data.version || !data.items): what the popup's import takes
PopupTakes(f) == f.parses /\ f.version # "" /\ f.hasItems

\* the popup's importCache from the file chosen to the settling of its one
\* chrome.storage.local.set: productCache and cacheMetadata as the file
\* has them
PopupImport(f) ==
    /\ pop.pc = "idle"
    /\ \E ok \in BOOLEAN :
        /\ Outcome(ok)
        /\ fails' = IF PopupTakes(f) THEN Failed(ok) ELSE fails
        /\ IF PopupTakes(f) /\ ok
           THEN /\ store' = [productCache |-> StoredCache(f.items),
                             cacheMetadata |-> StoredMeta(f.version, now)]
                /\ pop' = [PopIdle EXCEPT !.handler = "import", !.pc = "done",
                                          !.file = f]
           ELSE /\ UNCHANGED store
                /\ pop' = [PopIdle EXCEPT !.handler = "import", !.pc = "alerted",
                                          !.file = f]
    /\ UNCHANGED <<now, data, initialized, ipc, currentMetadata, pending, ops,
                   last, store0, req, runs, rates, call, waiting, initRuns, imp,
                   fx, bg, marks>>

\* the popup's clearCache, confirmed, to the settling of its
\* chrome.storage.local.remove
PopupClear ==
    /\ pop.pc = "idle"
    /\ \E ok \in BOOLEAN :
        /\ Outcome(ok)
        /\ fails' = Failed(ok)
        /\ store' = IF ok THEN [productCache |-> Absent, cacheMetadata |-> Absent]
                    ELSE store
        /\ pop' = [PopIdle EXCEPT !.handler = "clear",
                                  !.pc = IF ok THEN "done" ELSE "threw",
                                  !.removed = IF ok THEN store.productCache ELSE Absent]
    /\ UNCHANGED <<now, data, initialized, ipc, currentMetadata, pending, ops,
                   last, store0, req, runs, rates, call, waiting, initRuns, imp,
                   fx, bg, marks>>

(***************************************************************************)
(* BookmarkManager (src/content.js): a Map from url to bookmark            *)
(***************************************************************************)
MarkUrls == {"u1", "u2"}
MarkTitles == {"a", "b"}
Bookmark(title, url, t) == [title |-> title, url |-> url, timestamp |-> t]

\* map is this.bookmarks as the sequence of its values in the Map's order of
\* insertion, stored the bookmarks object in chrome.storage.local, ret what
\* getAll returned last, calls the calls of add and remove so far
NoMarks == [map |-> <<>>, stored |-> <<>>, ret |-> <<>>, calls |-> 0]

\* the places of url among the values
Places(map, url) == {i \in 1..Len(map) : map[i].url = url}

\* MapSet altered: a second entry for a url already there
MapSetAppends(map, url, b) == Append(map, b)

\* Map.prototype.set: the value of a key already there is replaced where it
\* stands, a new key goes to the end
MapSet(map, url, b) ==
    IF Places(map, url) # {}
    THEN [i \in 1..Len(map) |-> IF map[i].url = url THEN b ELSE map[i]]
    ELSE Append(map, b)

\* Map.prototype.delete
MapDelete(map, url) == SelectSeq(map, LAMBDA b : b.url # url)

\* b put into a sequence sorted by (x, y) => y.timestamp - x.timestamp, behind
\* the values that do not sort after it
InsertDesc(sorted, b) ==
    LET before == {i \in 1..Len(sorted) : sorted[i].timestamp >= b.timestamp}
        n == Cardinality(before)
    IN SubSeq(sorted, 1, n) \o <<b>> \o SubSeq(sorted, n + 1, Len(sorted))

\* Array.prototype.sort((a, b) => b.timestamp - a.timestamp): stable
RECURSIVE SortDesc(_)
SortDesc(values) ==
    IF values = <<>> THEN <<>>
    ELSE InsertDesc(SortDesc(SubSeq(values, 1, Len(values) - 1)), values[Len(values)])

\* persistToStorage: the write of the whole map, caught when it fails
Persisted(rec, outcome) ==
    [rec EXCEPT !.stored = IF outcome = "resolves" THEN rec.map ELSE @]

\* add(title, url), the manager initialized
MarkAdd(title, url, outcome) ==
    /\ marks.calls < MaxOps
    /\ marks' = Persisted([marks EXCEPT
                              !.map = MapSet(@, url, Bookmark(title, url, now)),
                              !.calls = @ + 1], outcome)
    /\ UNCHANGED <<cacheVars, req, runs, rates, call, waiting, initRuns, imp, fx,
                   bg, pop>>

\* remove(url)
MarkRemove(url, outcome) ==
    /\ marks.calls < MaxOps
    /\ marks' = Persisted([marks EXCEPT !.map = MapDelete(@, url),
                                        !.calls = @ + 1], outcome)
    /\ UNCHANGED <<cacheVars, req, runs, rates, call, waiting, initRuns, imp, fx,
                   bg, pop>>

\* getAll()
MarkGetAll ==
    /\ marks' = [marks EXCEPT !.ret = SortDesc(marks.map)]
    /\ UNCHANGED <<cacheVars, req, runs, rates, call, waiting, initRuns, imp, fx,
                   bg, pop>>

(***************************************************************************)
(* Resolution of a listing: the record of one fetchAndUpdatePrice call      *)
(***************************************************************************)
NoPrices == [p \in Platforms |-> Unavailable]
\* a text of the price page's span that parseFloat makes NaN of
NonNumeric == "--"
\* what the span of a price page can hold
SpanTexts == {"10", NonNumeric}
\* what chrome.runtime.sendMessage can come to, besides a page with a span:
\* a page without one, an answer without success, a rejection
ProxyAnswerKinds == SpanTexts \cup {"no span", "failure", "throws"}
\* what the listing page holds for a platform: no match of the pattern, a
\* match the id cannot be extracted from, a match with an id
Extractions == {"none", "noid", "id"}
ReqIdle == [pc |-> "idle", key |-> 0, hit |-> FALSE, primary |-> "none",
            inflight |-> FALSE, prices |-> NoPrices, waiting |-> {},
            asked |-> {}, failed |-> {}, details |-> Undefined,
            wrote |-> FALSE, src |-> 0, badge |-> "", useCache |-> TRUE]

\* ConsultsCache altered: the cache is asked whatever useCache is
ConsultsCacheAlways(useCache) == TRUE

\* useCache ? await productCache.get(titleElement.href) : null
ConsultsCache(useCache) == useCache

\* if (!productDetails)
MustFetchAlways(found) == TRUE

\* if (!productDetails)
MustFetch(found) == ~found

\* fetchAndUpdatePrice from currentProductDetails = productDetails up to its
\* next await or its end
Shown(rec, details, hovered, t) ==
    LET got == [rec EXCEPT !.details = details] IN
    IF ~hovered THEN [got EXCEPT !.pc = "done"]
    ELSE IF details.price = NA THEN [got EXCEPT !.pc = "done", !.badge = NA]
    ELSE IF details.price = NonNumeric
         THEN [got EXCEPT !.pc = "done", !.badge = NonNumeric]
    ELSE IF RatesFresh(t) THEN [got EXCEPT !.pc = "done", !.badge = "converted"]
    ELSE [got EXCEPT !.pc = "rates", !.src = 1]

\* fetchProductDetails returns details and fetchAndUpdatePrice calls
\* productCache.set with it
Returned(r, rec, details) ==
    /\ CacheSet(rec.key, details, r)
    /\ req' = [req EXCEPT ![r] = [rec EXCEPT !.pc = "set", !.details = details,
                                             !.wrote = TRUE]]
    /\ UNCHANGED <<ops, runs, rates, call, sideVars>>

\* the calls of fetchAndUpdatePrice a behaviour follows: MaxRuns, and one more
\* for each call that can be under way beside the first
RunsAllowed == MaxRuns + Cardinality(DOMAIN req) - 1

\* fetchAndUpdatePrice(useCache) for the listing key, up to its first await
\* on the network or its end
Start(r, key, useCache) ==
    /\ req[r].pc \in {"idle", "done"}
    /\ runs < RunsAllowed
    /\ runs' = runs + 1
    /\ IF ConsultsCache(useCache) THEN CacheGet(key) ELSE UNCHANGED <<cacheVars>>
    /\ UNCHANGED <<ops, rates, call, sideVars>>
    /\ LET found == ConsultsCache(useCache) /\ GetFound(data, key, now)
           rec == [ReqIdle EXCEPT !.key = key, !.badge = req[r].badge,
                                  !.useCache = useCache]
       IN IF MustFetch(found)
          THEN req' = [req EXCEPT ![r] = [rec EXCEPT !.pc = "fetch",
                           !.primary = "pending", !.inflight = TRUE,
                           !.badge = "Loading..."]]
          ELSE \E hovered \in BOOLEAN :
                   req' = [req EXCEPT ![r] =
                       Shown([rec EXCEPT !.hit = TRUE], data[key].data, hovered, now)]

\* fetch(productLink) resolves with a response, whatever its status
FetchResponds(r, status) ==
    /\ req[r].pc = "fetch"
    /\ req' = [req EXCEPT ![r].pc = "body", ![r].primary = status,
                          ![r].inflight = FALSE]
    /\ UNCHANGED <<cacheVars, runs, rates, call, sideVars>>

\* fetch(productLink) rejects
FetchRejects(r) ==
    /\ req[r].pc = "fetch"
    /\ Returned(r, [req[r] EXCEPT !.primary = "error", !.inflight = FALSE],
                Unavailable)

\* the 10 s timer rejects the race; the fetch stays in flight
TimeoutFires(r) ==
    /\ req[r].pc = "fetch"
    /\ Returned(r, [req[r] EXCEPT !.primary = "timeout"], Unavailable)

\* LateFetch altered: the response resumes the call at response.text()
LateFetchResumes(r) ==
    /\ req[r].inflight
    /\ req[r].primary = "timeout"
    /\ req' = [req EXCEPT ![r].inflight = FALSE, ![r].pc = "body"]
    /\ UNCHANGED <<cacheVars, runs, rates, call, sideVars>>

\* the response to a fetch that lost the race arrives
LateFetch(r) ==
    /\ req[r].inflight
    /\ req[r].primary = "timeout"
    /\ req' = [req EXCEPT ![r].inflight = FALSE]
    /\ UNCHANGED <<cacheVars, runs, rates, call, sideVars>>

\* response.text() resolves: the page is parsed, the platform links are
\* matched and a price is asked of the proxy for each link with an id
BodyArrives(r, ext) ==
    /\ req[r].pc = "body"
    /\ LET linked == {p \in Platforms : ext[p] = "id"}
           prices == [p \in Platforms |->
                        IF p \in linked
                        THEN [price |-> NA, link |-> LinkOf[p]]
                        ELSE Unavailable]
           rec == [req[r] EXCEPT !.prices = prices, !.waiting = linked,
                                 !.asked = linked]
       IN IF linked = {}
          THEN Returned(r, rec, selectPlatformPrice(prices))
          ELSE /\ req' = [req EXCEPT ![r] = [rec EXCEPT !.pc = "query"]]
               /\ UNCHANGED <<cacheVars, runs, rates, call, sideVars>>

\* response.text() rejects
BodyRejects(r) ==
    /\ req[r].pc = "body"
    /\ Returned(r, req[r], Unavailable)

\* the price fetchPriceForPlatform leaves in prices[platform] for an answer
PriceRead(answer) == IF answer \in SpanTexts THEN answer ELSE NA

\* the answers the try block of fetchPriceForPlatform makes nothing of: no
\* success, or sendMessage throwing into the catch block
ProxyFailures == {"failure", "throws"}

\* AfterAnswer altered: a failed platform takes the other platforms with it
AfterAnswerAllOrNothing(prices, p, answer) ==
    IF answer \in ProxyFailures
    THEN NoPrices
    ELSE [prices EXCEPT ![p].price = PriceRead(answer)]

\* prices once fetchPriceForPlatform has settled for platform p
AfterAnswer(prices, p, answer) ==
    [prices EXCEPT ![p].price = PriceRead(answer)]

\* chrome.runtime.sendMessage for a platform settles; the last one to settle
\* resolves Promise.all
ProxyAnswers(r, p, answer) ==
    /\ req[r].pc = "query"
    /\ p \in req[r].waiting
    /\ LET prices == AfterAnswer(req[r].prices, p, answer)
           rec == [req[r] EXCEPT !.prices = prices, !.waiting = @ \ {p},
                                 !.failed = IF answer \in ProxyFailures
                                            THEN @ \cup {p} ELSE @]
       IN IF rec.waiting = {}
          THEN Returned(r, rec, selectPlatformPrice(prices))
          ELSE /\ req' = [req EXCEPT ![r] = rec]
               /\ UNCHANGED <<cacheVars, runs, rates, call, sideVars>>

\* the write of productCache.set settles, failed or not (persistToStorage
\* catches), and fetchAndUpdatePrice goes on
SetDone(r) ==
    /\ req[r].pc = "set"
    /\ pending # <<>>
    /\ Head(pending).owner = r
    /\ StoreDone
    /\ \E hovered \in BOOLEAN :
           req' = [req EXCEPT ![r] = Shown(req[r], req[r].details, hovered, now)]
    /\ UNCHANGED <<runs, rates, call, sideVars>>

\* the source fetchExchangeRates is waiting for answers: with a table, or
\* with a failure (a status that is not ok, a rejection, a body that is not
\* JSON) after which the next source is tried or the function throws
RatesAnswer(r, ok) ==
    /\ req[r].pc = "rates"
    /\ IF ok
       THEN /\ rates' = [loaded |-> TRUE, lastUpdate |-> now, table |-> SampleRates]
            /\ req' = [req EXCEPT ![r].pc = "done", ![r].badge = "converted"]
       ELSE /\ UNCHANGED rates
            /\ IF req[r].src < NumSources
               THEN req' = [req EXCEPT ![r].src = @ + 1]
               ELSE req' = [req EXCEPT ![r].pc = "done", ![r].badge = "Error"]
    /\ UNCHANGED <<cacheVars, runs, call, sideVars>>

(***************************************************************************)
(* The store a new content script can find                                 *)
(***************************************************************************)
\* entries an earlier run left: written at ts, last read at ts or just now
StoredEntries ==
    {[data |-> SamplePrice, timestamp |-> ts, lastAccessed |-> la] :
        ts \in 1..T0, la \in 1..T0} \cup
    {[data |-> Undefined, timestamp |-> T0, lastAccessed |-> T0]}

WellFormedStored(e) == e.lastAccessed \in {e.timestamp, T0}

\* the code treats every key alike: the stored keys are taken to be 1..n, oldest
\* entry first
Rank(e) == e.timestamp * (T0 + 1) + e.lastAccessed + (IF Truthy(e.data) THEN 0 ELSE 1)

StoredMaps ==
    UNION {{m \in [1..n -> {e \in StoredEntries : WellFormedStored(e)}] :
               \A i \in 1..(n - 1) : Rank(m[i]) <= Rank(m[i + 1])} : n \in 0..NumKeys}

StoredMetas ==
    {Absent} \cup {StoredMeta(v, lc) : v \in {Version, OldVersion}, lc \in {1, T0}}

CacheInit ==
    /\ now = T0
    /\ data = EmptyMap
    /\ initialized = FALSE
    /\ ipc = "readMeta"
    /\ currentMetadata = Absent
    /\ store \in {[productCache |-> c, cacheMetadata |-> m] :
                    c \in {Absent} \cup {StoredCache(i) : i \in StoredMaps},
                    m \in StoredMetas}
    /\ pending = <<>>
    /\ fails = 0
    /\ ops = 0
    /\ last = NoOp
    /\ store0 = store

\* no call of fetchAndUpdatePrice yet, no rates loaded
NoResolution ==
    /\ req = [r \in Reqs |-> ReqIdle]
    /\ runs = 0
    /\ rates = NoRates
    /\ fx = [c \in Callers |-> FxIdle]
    /\ bg = [m \in Msgs |-> BgIdle]
    /\ pop = PopIdle
    /\ marks = NoMarks
    /\ call = NoCall
    /\ waiting = {}
    /\ initRuns = 1
    /\ imp = ImpIdle

\* a content script from its construction: initialize(), then reads
Next ==
    \/ InitReadMeta /\ UNCHANGED resVars
    \/ InitClearDone /\ UNCHANGED resVars
    \/ InitLoad /\ UNCHANGED resVars
    \/ InitCleanup /\ UNCHANGED resVars
    \/ InitCleanupPersisted /\ UNCHANGED resVars
    \/ InitWriteMeta /\ UNCHANGED resVars
    \/ \E k \in Keys : Get(k) /\ UNCHANGED resVars
    \/ Tick /\ UNCHANGED resVars

\* a content script at its construction
Init == CacheInit /\ NoResolution

Spec == Init /\ [][Next]_vars

(***************************************************************************)
(* An initialized cache and its clients                                    *)
(***************************************************************************)
\* maps initialize() loads whole: every entry valid at T0, none read since it
\* was written (get() below is what moves lastAccessed)
LoadedMaps ==
    {m \in StoredMaps :
        /\ ValidPart(m, T0) = m
        /\ \A k \in DOMAIN m : m[k].lastAccessed = m[k].timestamp}

\* the state initialize() ends in when the stored version is the current one,
\* the last cleanup is recent and no call fails
OpsInit ==
    /\ now = T0
    /\ data \in LoadedMaps
    /\ initialized = TRUE
    /\ ipc = "done"
    /\ currentMetadata = StoredMeta(Version, T0)
    /\ store = [productCache |-> StoredCache(data), cacheMetadata |-> currentMetadata]
    /\ pending = <<>>
    /\ fails = 0
    /\ ops = 0
    /\ last = NoOp
    /\ store0 = store

OpsNext ==
    \/ \E k \in Keys : Get(k) /\ UNCHANGED resVars
    \/ \E k \in Keys, v \in Payloads : Set(k, v) /\ UNCHANGED resVars
    \/ Cleanup /\ UNCHANGED resVars
    \/ ClearCache /\ UNCHANGED resVars
    \/ StoreDone /\ UNCHANGED resVars
    \/ Tick /\ UNCHANGED resVars

\* an initialized cache before any call
ClientsInit == OpsInit /\ NoResolution

SpecOps == ClientsInit /\ [][OpsNext]_vars

(***************************************************************************)
(* Calls of selectPlatformPrice, one per behaviour                         *)
(***************************************************************************)
\* an initialized, empty cache with nothing in flight
EmptyCache ==
    /\ now = T0
    /\ data = EmptyMap
    /\ initialized = TRUE
    /\ ipc = "done"
    /\ currentMetadata = StoredMeta(Version, T0)
    /\ store = [productCache |-> StoredCache(data), cacheMetadata |-> currentMetadata]
    /\ pending = <<>>
    /\ fails = 0
    /\ ops = 0
    /\ last = NoOp
    /\ store0 = store

SelectInit ==
    /\ EmptyCache
    /\ req = [r \in Reqs |-> ReqIdle]
    /\ runs = 0
    /\ rates = NoRates
    /\ fx = [c \in Callers |-> FxIdle]
    /\ bg = [m \in Msgs |-> BgIdle]
    /\ pop = PopIdle
    /\ marks = NoMarks
    /\ waiting = {}
    /\ initRuns = 1
    /\ imp = ImpIdle
    /\ call \in {[NoCall EXCEPT !.fn = "selectPlatformPrice", !.arg = m] :
                    m \in PricesMaps}

SelectNext == ApplySelect

SpecSelect == SelectInit /\ [][SelectNext]_vars

(***************************************************************************)
(* A content script resolving listings over an initialized cache           *)
(***************************************************************************)
\* the listings of the page: one the cache may hold from an earlier visit,
\* one it does not hold
Listings == {k \in Keys : k <= 2}

ResInit ==
    /\ OpsInit
    /\ Cardinality(DOMAIN data) <= 1
    /\ NoResolution

ResNext ==
    \/ \E r \in Reqs, k \in Listings, useCache \in BOOLEAN : Start(r, k, useCache)
    \/ \E r \in Reqs, status \in {"ok", "badStatus"} : FetchResponds(r, status)
    \/ \E r \in Reqs : FetchRejects(r)
    \/ \E r \in Reqs : TimeoutFires(r)
    \/ \E r \in Reqs : LateFetch(r)
    \/ \E r \in Reqs, ext \in [Platforms -> Extractions] : BodyArrives(r, ext)
    \/ \E r \in Reqs : BodyRejects(r)
    \/ \E r \in Reqs, p \in Platforms, a \in ProxyAnswerKinds : ProxyAnswers(r, p, a)
    \/ \E r \in Reqs : SetDone(r)
    \/ \E r \in Reqs, ok \in BOOLEAN : RatesAnswer(r, ok)
    \/ Tick /\ UNCHANGED resVars

SpecR == ResInit /\ [][ResNext]_vars

\* the timer, the local store and the script itself always get their turn;
\* the network owes no answer
Fairness ==
    /\ \A r \in Reqs : WF_vars(TimeoutFires(r))
    /\ \A r \in Reqs : WF_vars(SetDone(r))

FairSpecR == SpecR /\ Fairness

(***************************************************************************)
(* A content script from its construction, with callers arriving at any    *)
(* time                                                                    *)
(***************************************************************************)
\* the store holds at most one entry
BootInit ==
    /\ Init
    /\ store.productCache.present => Cardinality(DOMAIN store.productCache.items) <= 1

BootNext ==
    \/ InitReadMeta /\ UNCHANGED resVars
    \/ InitClearDone /\ UNCHANGED resVars
    \/ InitLoad /\ UNCHANGED resVars
    \/ InitCleanup /\ UNCHANGED resVars
    \/ InitCleanupPersisted /\ UNCHANGED resVars
    \/ InitWriteMeta /\ UNCHANGED resVars
    \/ \E c \in BootCalls : Arrive(c)
    \/ \E c \in BootCalls : Serve(c)
    \/ StoreDone /\ UNCHANGED resVars
    \/ Tick /\ UNCHANGED resVars

SpecBoot == BootInit /\ [][BootNext]_vars

\* every call on chrome.storage.local settles, and a call whose await is
\* over goes on
BootFairness ==
    /\ WF_vars(InitReadMeta /\ UNCHANGED resVars)
    /\ WF_vars(InitClearDone /\ UNCHANGED resVars)
    /\ WF_vars(InitLoad /\ UNCHANGED resVars)
    /\ WF_vars(InitCleanup /\ UNCHANGED resVars)
    /\ WF_vars(InitCleanupPersisted /\ UNCHANGED resVars)
    /\ WF_vars(InitWriteMeta /\ UNCHANGED resVars)
    /\ WF_vars(StoreDone /\ UNCHANGED resVars)
    /\ \A c \in BootCalls : WF_vars(Serve(c))

FairSpecBoot == SpecBoot /\ BootFairness

(***************************************************************************)
(* The settings panel over an initialized cache: one export, one import    *)
(***************************************************************************)
PanelInit == OpsInit /\ NoResolution

PanelNext ==
    \/ ExportCache
    \/ \E f \in ForeignFiles \cup {imp.exported} : ImportChosen(f)
    \/ ImportCleared
    \/ ImportItemStored
    \/ Tick /\ UNCHANGED resVars

SpecPanel == PanelInit /\ [][PanelNext]_vars

(***************************************************************************)
(* The exchange rates and their callers                                    *)
(***************************************************************************)
\* CURRENCY_CACHE as a call can find it: nothing loaded, a table loaded just
\* now, or one loaded an interval ago
RatesStates ==
    {NoRates} \cup
    {[loaded |-> TRUE, lastUpdate |-> t, table |-> tb] :
        t \in {T0, T0 - UpdateInterval}, tb \in Tables}

RatesInit ==
    /\ EmptyCache
    /\ req = [r \in Reqs |-> ReqIdle]
    /\ runs = 0
    /\ rates \in RatesStates
    /\ fx = [c \in Callers |-> FxIdle]
    /\ bg = [m \in Msgs |-> BgIdle]
    /\ pop = PopIdle
    /\ marks = NoMarks
    /\ call = NoCall
    /\ waiting = {}
    /\ initRuns = 1
    /\ imp = ImpIdle

RatesNext ==
    \/ \E c \in Callers, price \in ShownPrices, to \in Targets :
          FxCall(c, price, "superbuy", to)
    \/ \E c \in Callers, outcome \in FetchOutcomes : FxFetchSettles(c, outcome)
    \/ \E c \in Callers, body \in Bodies : FxJsonSettles(c, body)
    \/ Tick /\ UNCHANGED resVars

SpecRates == RatesInit /\ [][RatesNext]_vars

(***************************************************************************)
(* Calls of calculateAgentFee and convertCurrency, one per behaviour       *)
(***************************************************************************)
\* prices in CNY the functions are called with
FeePrices == {1, 10, 25, 99, 100, 1000}

FeeCalls ==
    {[NoCall EXCEPT !.fn = "calculateAgentFee",
                    !.arg = [price |-> DoubleOfNat(p), agent |-> a]] :
        p \in FeePrices, a \in Agents}

ConvertCalls ==
    {[NoCall EXCEPT !.fn = "convertCurrency",
                    !.arg = [amount |-> calculateAgentFee(DoubleOfNat(p), a), to |-> t]] :
        p \in FeePrices, a \in {"superbuy", "cssbuy"}, t \in Targets}

MoneyInit ==
    /\ EmptyCache
    /\ req = [r \in Reqs |-> ReqIdle]
    /\ runs = 0
    /\ rates \in RatesStates
    /\ fx = [c \in Callers |-> FxIdle]
    /\ bg = [m \in Msgs |-> BgIdle]
    /\ pop = PopIdle
    /\ marks = NoMarks
    /\ waiting = {}
    /\ initRuns = 1
    /\ imp = ImpIdle
    /\ call \in FeeCalls \cup ConvertCalls

MoneyNext == ApplyFee \/ ApplyConvert

SpecMoney == MoneyInit /\ [][MoneyNext]_vars

(***************************************************************************)
(* The background listener and the messages sent to it                     *)
(***************************************************************************)
BgInit == ClientsInit /\ data = EmptyMap

BgNext ==
    \/ \E m \in Msgs, type \in MsgTypes, url \in MsgUrls : BgMessage(m, type, url)
    \/ \E m \in Msgs, status \in Statuses : BgFetchResponds(m, status)
    \/ \E m \in Msgs : BgFetchRejects(m)
    \/ \E m \in Msgs : BgTextArrives(m)
    \/ \E m \in Msgs : BgTextRejects(m)

SpecBg == BgInit /\ [][BgNext]_vars

\* the network settles every request: a fetch resolves or rejects, and so
\* does the reading of a body
BgFairness ==
    \A m \in Msgs :
        /\ WF_vars(BgFetchRejects(m) \/ \E status \in Statuses : BgFetchResponds(m, status))
        /\ WF_vars(BgTextArrives(m) \/ BgTextRejects(m))

FairSpecBg == SpecBg /\ BgFairness

(***************************************************************************)
(* The bookmark panel of a page and the settings popup                     *)
(***************************************************************************)
\* the bookmarks an earlier visit stored, as initialize() loads them
StoredMarks ==
    {<<>>, <<Bookmark("a", "u1", 1)>>,
     <<Bookmark("a", "u1", 1), Bookmark("b", "u2", T0)>>}

\* nothing under way: the cache is loaded and empty, the popup is open
Quiet ==
    /\ OpsInit
    /\ data = EmptyMap
    /\ req = [r \in Reqs |-> ReqIdle]
    /\ runs = 0
    /\ rates = NoRates
    /\ fx = [c \in Callers |-> FxIdle]
    /\ bg = [m \in Msgs |-> BgIdle]
    /\ call = NoCall
    /\ waiting = {}
    /\ initRuns = 1
    /\ imp = ImpIdle
    /\ pop = PopIdle

UiInit == Quiet /\ marks = NoMarks

UiNext ==
    \/ \E handler \in {"save", "dark"} : PopHandle(handler)
    \/ \E outcome \in Settled : PopSetSettles(outcome)
    \/ \E tabs \in QueryAnswers(pop.handler) : PopQueryAnswers(tabs)
    \/ \E outcome \in Settled : PopSendSettles(outcome)
    \/ Tick /\ UNCHANGED resVars

SpecUi == UiInit /\ [][UiNext]_vars

(***************************************************************************)
(* Calls of the bookmark manager                                           *)
(***************************************************************************)
MarksInit == Quiet /\ \E m \in StoredMarks : marks = [NoMarks EXCEPT !.map = m, !.stored = m]

MarksNext ==
    \/ \E title \in MarkTitles, url \in MarkUrls, outcome \in Settled :
           MarkAdd(title, url, outcome)
    \/ \E url \in MarkUrls, outcome \in Settled : MarkRemove(url, outcome)
    \/ MarkGetAll
    \/ Tick /\ UNCHANGED resVars

SpecMarks == MarksInit /\ [][MarksNext]_vars

(***************************************************************************)
(* Two calls of fetchAndUpdatePrice for one listing, under way together    *)
(***************************************************************************)
Twins == {1, 2}
\* the listing both calls resolve
TwinKey == 1
\* the page names a taobao link with an id, or no link
TwinExtractions ==
    {[taobao |-> "id", weidian |-> "none"], [taobao |-> "none", weidian |-> "none"]}

TwinInit ==
    /\ OpsInit
    /\ data = EmptyMap
    /\ req = [r \in Twins |-> ReqIdle]
    /\ runs = 0
    /\ rates = NoRates
    /\ fx = [c \in Callers |-> FxIdle]
    /\ bg = [m \in Msgs |-> BgIdle]
    /\ call = NoCall
    /\ waiting = {}
    /\ initRuns = 1
    /\ imp = ImpIdle
    /\ pop = PopIdle
    /\ marks = NoMarks

TwinNext ==
    \/ \E r \in Twins, useCache \in BOOLEAN : Start(r, TwinKey, useCache)
    \/ \E r \in Twins : FetchResponds(r, "ok")
    \/ \E r \in Twins : FetchRejects(r)
    \/ \E r \in Twins : TimeoutFires(r)
    \/ \E r \in Twins : LateFetch(r)
    \/ \E r \in Twins, ext \in TwinExtractions : BodyArrives(r, ext)
    \/ \E r \in Twins, a \in {"10", "failure"} : ProxyAnswers(r, "taobao", a)
    \/ \E r \in Twins : SetDone(r)
    \/ \E r \in Twins, ok \in BOOLEAN : RatesAnswer(r, ok)
    \/ Tick /\ UNCHANGED resVars

SpecTwin == TwinInit /\ [][TwinNext]_vars

(***************************************************************************)
(* A content script from its construction, the settings panel of its page  *)
(* and the popup's import                                                  *)
(***************************************************************************)
\* the payload of an item written by another build
ForeignPrice == [platform |-> "taobao", price |-> "99", link |-> "t", priority |-> 1]
\* a file of another version with an item young enough to be loaded, and a
\* file of this version
OldFile == File(OldVersion, [k \in {1} |-> NewEntry(ForeignPrice, T0)])
NewFile == File(Version, [k \in {2} |-> NewEntry(SamplePrice, T0)])

ForeignInit ==
    /\ CacheInit
    /\ store.cacheMetadata \in {Absent, StoredMeta(Version, T0)}
    /\ store.productCache \in {Absent, StoredCache([k \in {2} |-> NewEntry(SamplePrice, T0)])}
    /\ NoResolution

\* the last cleanup is recent: initialize() does not call cleanup()
ForeignNext ==
    \/ InitReadMeta /\ UNCHANGED resVars
    \/ InitClearDone /\ UNCHANGED resVars
    \/ InitLoad /\ UNCHANGED resVars
    \/ InitWriteMeta /\ UNCHANGED resVars
    \/ \E k \in {1, 2} : Get(k) /\ UNCHANGED resVars
    \/ \E f \in {OldFile, NewFile} : ImportChosen(f)
    \/ ImportCleared
    \/ ImportItemStored
    \/ \E f \in {OldFile, NewFile} : PopupImport(f)

SpecForeign == ForeignInit /\ [][ForeignNext]_vars

(***************************************************************************)
(* A running content script and the popup, which share the store           *)
(***************************************************************************)
\* the content script holds one entry, stored on an earlier visit
SharedInit ==
    /\ OpsInit
    /\ Cardinality(DOMAIN data) = 1
    /\ NoResolution

SharedNext ==
    \/ \E k \in Listings : Get(k) /\ UNCHANGED resVars
    \/ \E k \in Listings, v \in Payloads : Set(k, v) /\ UNCHANGED resVars
    \/ StoreDone /\ UNCHANGED resVars
    \/ PopupClear
    \/ PopupImport(NewFile)
    \/ Tick /\ UNCHANGED resVars

SpecShared == SharedInit /\ [][SharedNext]_vars

(***************************************************************************)
(* The cache's properties                                                  *)
(***************************************************************************)
Size(d) == Cardinality(DOMAIN d)
Expired(d, k, t) == k \in DOMAIN d /\ t - d[k].timestamp >= MaxAge
HadMismatch == store0.cacheMetadata.present /\ store0.cacheMetadata.version # Version

\* C1: get(k) returns a payload only while now - createdAt < maxAge, and
\* once k's entry has reached maxAge, get(k) is absent in every later state
\* until set(k) is called again
C1_GetOnlyWhileFresh ==
    [][\A k \in Keys :
        /\ (Get(k) /\ last'.found) =>
              (k \in DOMAIN data /\ now - data[k].timestamp < MaxAge
                 /\ last'.val = data[k].data)
        /\ (Expired(data, k, now) /\ ~(\E v \in Payloads : Set(k, v))) =>
              (~GetFound(data', k, now') /\ (Get(k) => ~last'.found))
      ]_cacheVars

\* an entry set() wrote in this run has reached maxAge, is still in the map,
\* and get() has just answered absent for it
C1_Witness ==
    /\ last.op = "get" /\ ~last.found
    /\ Expired(data, last.key, now)
    /\ data[last.key].timestamp >= T0

\* C2: after an initialization that found a stored version other than
\* CACHE_CONFIG.version the in-memory cache is empty, whatever productCache
\* held, and get returns none of the entries stored before
C2_MismatchWipes ==
    (HadMismatch /\ initialized) =>
        (data = EmptyMap /\ (last.op = "get" => ~last.found))

\* the store held an entry valid when get() asked for it, under a foreign version
C2_Witness ==
    /\ HadMismatch /\ initialized
    /\ last.op = "get"
    /\ store0.productCache.present
    /\ GetFound(store0.productCache.items, last.key, now)

\* C3: when cleanup() is the last operation on the cache, the cache holds at
\* most maxItems entries
C3_CapacityAfterCleanup ==
    last.op = "cleanup" => Size(data) <= MaxItems

\* a cleanup() that had to evict has just run
C3_Witness ==
    last.op = "cleanup" /\ last.evicted > 0 /\ Size(data) = MaxItems

\* C4: what cleanup() evicts for capacity was accessed no later than anything
\* it keeps, and it evicts nothing when the valid entries fit in maxItems
C4_EvictsLeastRecent ==
    [][InitCleanup =>
        LET mid == ValidPart(data, now)
        IN  /\ DOMAIN data' \subseteq DOMAIN mid
            /\ \A e \in DOMAIN mid \ DOMAIN data', r \in DOMAIN data' :
                  mid[e].lastAccessed <= mid[r].lastAccessed
            /\ Size(mid) <= MaxItems => data' = mid
      ]_cacheVars

\* a cleanup() evicted, and the entries it kept differ in lastAccessed
C4_Witness ==
    /\ last.op = "cleanup" /\ last.evicted > 0
    /\ \E a, b \in DOMAIN data : data[a].lastAccessed < data[b].lastAccessed

\* C5 as stated: the second of two cleanup() calls with no write between
\* them deletes nothing and writes nothing
C5_SecondCleanupDeletesNothing ==
    (last.op = "cleanup" /\ last.prevOp = "cleanup") =>
        (last.expired + last.evicted = 0 /\ ~last.persisted)

\* C5, amended: the second of two cleanup() calls with no write between them
\* evicts nothing for capacity, and when no entry has reached maxAge since
\* the first call it deletes nothing and writes nothing
C5_SecondCleanupOnlyExpires ==
    (last.op = "cleanup" /\ last.prevOp = "cleanup") =>
        (last.evicted = 0 /\ (last.expired = 0 => ~last.persisted))

\* a cleanup() that deleted is followed by one that finds nothing to delete
C5_Witness ==
    /\ last.op = "cleanup" /\ last.prevOp = "cleanup"
    /\ last.prevDeleted > 0 /\ last.expired = 0 /\ data # EmptyMap

(***************************************************************************)
(* The properties of the selection and of the resolution                   *)
(***************************************************************************)
\* platform p has, in the prices map m, a price other than 'N/A' and a link
HasBoth(m, p) ==
    p \in DOMAIN m /\ m[p].price # NA /\ m[p].link # NoLink /\ m[p].link # ""
Selected == call.fn = "selectPlatformPrice" /\ call.done
\* fetchProductDetails has returned to the call r of fetchAndUpdatePrice
Fetched(r) == req[r].wrote

\* C6: when at least one platform of the prices map has a price other than
\* 'N/A' and a link, selectPlatformPrice returns one of those platforms, the
\* one with the lowest priority value among them, with its price and link;
\* a platform without a price or without a link is never returned.
C6_LowestPriorityAvailable ==
    (Selected /\ \E p \in Platforms : HasBoth(call.arg, p)) =>
        \E p \in Platforms :
            /\ HasBoth(call.arg, p)
            /\ \A q \in Platforms : HasBoth(call.arg, q) => Priority[p] <= Priority[q]
            /\ call.ret = [platform |-> p, price |-> call.arg[p].price,
                           link |-> call.arg[p].link, priority |-> Priority[p]]

\* taobao (priority 1) has no price, weidian (priority 2) has price and
\* link, and weidian is returned
C6_Witness ==
    /\ Selected
    /\ "taobao" \in DOMAIN call.arg
    /\ ~HasBoth(call.arg, "taobao")
    /\ HasBoth(call.arg, "weidian")
    /\ call.ret.platform = "weidian"

\* C7: when no platform of the prices map has both a price and a link,
\* selectPlatformPrice returns the record the map holds for the platform of
\* priority 1 as it is, 'N/A' price included; in every case it returns a
\* record with a price and a link field.
C7_FallbackVerbatim ==
    Selected =>
        /\ {"price", "link"} \subseteq DOMAIN call.ret
        /\ (\A p \in Platforms : ~HasBoth(call.arg, p)) =>
               \A p \in DOMAIN call.arg : Priority[p] = 1 => call.ret = call.arg[p]

\* nothing is available, the priority 1 record has a link but no price, and
\* it is returned although weidian has a price
C7_Witness ==
    /\ Selected
    /\ DOMAIN call.arg = Platforms
    /\ call.arg["taobao"] = [price |-> NA, link |-> LinkOf["taobao"]]
    /\ call.arg["weidian"].price # NA
    /\ call.ret = call.arg["taobao"]

\* C8: once fetchProductDetails has returned, if the request of the listing
\* page timed out or was answered with a status that is not a success, the
\* result is the Unavailable record: price 'N/A' and no link.
C8_FailedPrimaryIsUnavailable ==
    \A r \in Reqs :
        (Fetched(r) /\ req[r].primary \in {"timeout", "badStatus"}) =>
            req[r].details = Unavailable

\* C9: a call of fetchAndUpdatePrice that has started eventually ends, with a
\* result or with the error of the rates, whatever the network does.
C9_EveryResolutionTerminates ==
    \A r \in Reqs : (req[r].pc \notin {"idle", "done"}) ~> (req[r].pc = "done")

\* C10: a call with caching enabled that finds a valid entry for its key
\* takes the entry's payload as its result, starts no request of the listing
\* page and none of the proxy, and writes neither the cache nor the store,
\* at the hit and for the rest of the call.
C10_HitSkipsNetwork ==
    /\ [][\A r \in Reqs, k \in Listings :
            (Start(r, k, TRUE) /\ GetFound(data, k, now)) =>
                /\ req'[r].hit
                /\ req'[r].details = data[k].data
                /\ req'[r].primary = "none"
                /\ pending' = pending
                /\ store' = store]_vars
    /\ [][\A r \in Reqs : (req[r].hit /\ req'[r].hit /\ runs' = runs) =>
            /\ req'[r].details = req[r].details
            /\ data' = data
            /\ pending' = pending
            /\ store' = store]_vars
    /\ [](\A r \in Reqs : req[r].hit =>
            /\ req[r].primary = "none"
            /\ ~req[r].inflight
            /\ req[r].asked = {}
            /\ ~req[r].wrote)

\* a hit that went on to the rates and ended with a converted price
C10_Witness ==
    \E r \in Reqs :
        /\ req[r].hit
        /\ req[r].pc = "done"
        /\ req[r].badge = "converted"
        /\ req[r].details = SamplePrice

\* C11: when the proxy request of one platform throws or answers without
\* success, the price and link gathered for the other platform stay as
\* they are, the other request is neither cancelled nor failed, the failed
\* platform keeps its link with price 'N/A', and fetchProductDetails goes on
\* to return a record: the other platform's, when that one has a price.
C11_PlatformFailureIsolated ==
    /\ [][\A r \in Reqs, p \in Platforms, a \in ProxyFailures :
            ProxyAnswers(r, p, a) =>
                /\ \A q \in Platforms \ {p} :
                       /\ req'[r].prices[q] = req[r].prices[q]
                       /\ q \in req[r].waiting => q \in req'[r].waiting
                /\ req'[r].prices[p] = [price |-> NA, link |-> req[r].prices[p].link]
                /\ req'[r].pc \in {"query", "set"}]_vars
    /\ [](\A r \in Reqs : (Fetched(r) /\ req[r].failed # {}) =>
            /\ {"price", "link"} \subseteq DOMAIN req[r].details
            /\ \A q \in Platforms \ req[r].failed :
                   HasBoth(req[r].prices, q) =>
                       /\ req[r].details.price = req[r].prices[q].price
                       /\ req[r].details.link = req[r].prices[q].link)

\* both platforms were asked, taobao's request failed before weidian's
\* answered with a price, and weidian's record is the result
C11_Witness ==
    \E r \in Reqs :
        /\ Fetched(r)
        /\ req[r].asked = Platforms
        /\ req[r].failed = {"taobao"}
        /\ req[r].details = [platform |-> "weidian", price |-> "10",
                             link |-> LinkOf["weidian"], priority |-> 2]

\* the entries the store holds: none when productCache is not stored
StoredItems ==
    IF store.productCache.present THEN store.productCache.items ELSE EmptyMap

\* C12: once an import has been rejected, the in-memory map and the stored
\* productCache and cacheMetadata are what they were when the file was
\* chosen.
C12_RejectedImportKeepsCache ==
    imp.outcome = "rejected" =>
        /\ data = imp.before.data
        /\ store = imp.before.store

\* C13: an import that completes on the file an export made leaves the map
\* with exactly the keys it had at the export, each with the payload it had
\* then; and the same holds for the entries of the stored productCache
\* (none when the import left productCache removed) when no call on the
\* store failed.
C13_ExportImportRoundTrip ==
    (imp.outcome = "imported" /\ imp.exported.parses /\ imp.file = imp.exported) =>
        /\ DOMAIN data = DOMAIN imp.exportedFrom
        /\ \A k \in DOMAIN data : data[k].data = imp.exportedFrom[k].data
        /\ fails = 0 =>
               /\ DOMAIN StoredItems = DOMAIN imp.exportedFrom
               /\ \A k \in DOMAIN imp.exportedFrom :
                      StoredItems[k].data = imp.exportedFrom[k].data

\* two entries exported, imported later: same payloads, newer timestamps
C13_Witness ==
    /\ imp.outcome = "imported"
    /\ imp.file = imp.exported
    /\ Cardinality(DOMAIN imp.exportedFrom) = 2
    /\ \A k \in DOMAIN data :
           /\ data[k].data = SamplePrice
           /\ data[k].timestamp > imp.exportedFrom[k].timestamp

\* how far initialize() has come
Step(pc) ==
    CASE pc = "readMeta" -> 1
      [] pc = "clear" -> 2
      [] pc = "readCache" -> 3
      [] pc = "cleanup" -> 4
      [] pc = "cleanupPersist" -> 5
      [] pc = "writeMeta" -> 6
      [] pc = "done" -> 7

\* C14: however many get and set calls arrive while initialize() is
\* running, initialize() is run once: its steps are each taken at most once
\* and in order, an arriving call starts nothing and touches neither the
\* map nor the store, and a call goes on only when that one run has ended.
C14_InitializationMemoized ==
    /\ [](initRuns = 1)
    /\ [][ipc' # ipc => Step(ipc') > Step(ipc)]_vars
    /\ [][\A c \in BootCalls :
            /\ Arrive(c) => UNCHANGED <<ipc, data, store, currentMetadata, initialized>>
            /\ Serve(c) => (ipc = "done" /\ ipc' = "done")]_vars

\* two calls await the one run of initialize(), which has read the
\* metadata and is reading the entries
C14_Witness ==
    /\ Cardinality(waiting) = 2
    /\ ipc = "readCache"
    /\ initRuns = 1

\* C15: a get or set takes effect only once initialize() has finished:
\* while it runs the calls wait, and the in-memory map changes only by the
\* steps of initialize() itself.
C15_NoAccessBeforeInitialized ==
    [][/\ \A c \in BootCalls : Serve(c) => initialized
       /\ ~initialized =>
            /\ waiting \subseteq waiting'
            /\ last'.op \notin {"get", "set"}
            /\ data' # data => (InitReadMeta \/ InitLoad \/ InitCleanup)]_vars

\* a set still waits while the load has put the stored entry in the map
\* and the metadata is yet to be written
C15_Witness ==
    /\ ~initialized
    /\ ipc = "writeMeta"
    /\ data # EmptyMap
    /\ \E c \in waiting : c.op = "set"

\* C16: initialize() always comes to its end and marks the cache
\* initialized, whichever call on the store fails, and every call that
\* awaited it goes on.
C16_InitializationAlwaysCompletes ==
    /\ <>[](initialized /\ ipc = "done")
    /\ \A c \in BootCalls : (c \in waiting) ~> (c \notin waiting)

\* a call on the store failed during initialize(), and a get that waited
\* has been answered
C16_Witness ==
    /\ initialized
    /\ fails > 0
    /\ pending = <<>>
    /\ ops = 1
    /\ last.op = "get"
    /\ waiting = {}
    /\ store0.productCache.present
    /\ data = EmptyMap

\* C17: the step by which initialize() ends and marks the cache initialized
\* is, on every path, the write of cacheMetadata, and the record written
\* carries CACHE_CONFIG.version.
C17_ConcludesByWritingMetadata ==
    [][(~initialized /\ initialized') =>
            /\ ipc = "writeMeta"
            /\ currentMetadata.version = Version]_vars

\* the oldest call on the store completes without failing
Completes(op) ==
    /\ StoreDone
    /\ Head(pending).op = op
    /\ fails' = fails

\* what set(k, v) does to the map at clock now, and the write it starts
SetInstalls(k, v) ==
    /\ data'[k] = [data |-> v, timestamp |-> now, lastAccessed |-> now]
    /\ DOMAIN data' = DOMAIN data \cup {k}
    /\ \A j \in DOMAIN data \ {k} : data'[j] = data[j]
    /\ pending' = Append(pending, [op |-> "set", items |-> data', owner |-> 0])

\* C18 as stated: set(k, v) installs a new entry for k with payload v and
\* timestamp = lastAccessed = now, keeps nothing of a prior entry, writes
\* the whole map, and when that write completes the stored map has exactly
\* the keys of the in-memory map.
C18_SetStoresInMemoryKeys ==
    [][/\ \A k \in Keys, v \in Payloads : Set(k, v) => SetInstalls(k, v)
       /\ Completes("set") =>
            /\ store'.productCache.present
            /\ DOMAIN store'.productCache.items = DOMAIN data']_vars

\* C18 amended: set(k, v) installs the new entry and starts a write of the
\* whole map as it is then; when that write completes the stored map is the
\* map as it was at the call, which has the keys of the in-memory map
\* whenever no key was added or removed while the write was in flight.
C18_SetStoresMapAsOfCall ==
    [][/\ \A k \in Keys, v \in Payloads : Set(k, v) => SetInstalls(k, v)
       /\ Completes("set") =>
            /\ store'.productCache = StoredCache(Head(pending).items)
            /\ DOMAIN Head(pending).items = DOMAIN data =>
                   DOMAIN store'.productCache.items = DOMAIN data']_vars

\* a set over an entry the store held from the start has completed: the
\* entry is new and stored
C18_Witness ==
    /\ last.op = "set"
    /\ pending = <<>>
    /\ fails = 0
    /\ last.key \in DOMAIN store0.productCache.items
    /\ store0.productCache.items[last.key].timestamp < now
    /\ data[last.key] = NewEntry(SamplePrice, now)
    /\ store.productCache.items = data

\* the entry of key k is in the map, younger than maxAge and has a payload
Valid(k) ==
    /\ k \in DOMAIN data
    /\ now - data[k].timestamp < MaxAge
    /\ data[k].data # Undefined

\* C19: get(k) returns the payload of a valid entry and changes nothing but
\* that entry's lastAccessed, which becomes now; for a key that is missing
\* or has reached maxAge it returns nothing and leaves the map as it is; in
\* both cases it starts no write and the store stays as it is.
C19_GetTouchesOnlyLastAccessed ==
    [][\A k \in Keys : Get(k) =>
            /\ store' = store
            /\ pending' = pending
            /\ IF Valid(k)
               THEN /\ last'.found
                    /\ last'.val = data[k].data
                    /\ DOMAIN data' = DOMAIN data
                    /\ \A j \in DOMAIN data \ {k} : data'[j] = data[j]
                    /\ data'[k] = [data |-> data[k].data,
                                   timestamp |-> data[k].timestamp,
                                   lastAccessed |-> now]
               ELSE /\ ~last'.found
                    /\ last'.val = Undefined
                    /\ data' = data]_vars

\* a get has returned the payload of an entry written earlier, beside
\* another entry it left alone
C19_Witness ==
    /\ last.op = "get"
    /\ last.found
    /\ data[last.key].lastAccessed = now
    /\ data[last.key].timestamp < now
    /\ \E j \in DOMAIN data : j # last.key /\ data[j].lastAccessed < now

\* C20 as stated: when the remove of clearCache() completes, the in-memory
\* map is empty and neither productCache nor cacheMetadata is in the store.
C20_ClearLeavesNothing ==
    [][Completes("remove") =>
            /\ data' = EmptyMap
            /\ store' = [productCache |-> Absent, cacheMetadata |-> Absent]]_vars

\* C20 amended: clearCache() empties the in-memory map when it is called;
\* when its remove completes, neither productCache nor cacheMetadata is in
\* the store, and the map holds at most entries that set() added after the
\* call, whose writes are still in flight.
C20_ClearEmptiesAtCall ==
    [][/\ ClearCache => data' = EmptyMap
       /\ Completes("remove") =>
            /\ store' = [productCache |-> Absent, cacheMetadata |-> Absent]
            /\ \/ data' = EmptyMap
               \/ /\ pending' # <<>>
                  /\ DOMAIN data' \subseteq
                         UNION {DOMAIN pending'[i].items : i \in DOMAIN pending'}]_vars

\* a cache that held entries has been cleared: map empty, store empty
C20_Witness ==
    /\ last.op = "clear"
    /\ pending = <<>>
    /\ fails = 0
    /\ store0.productCache.items # EmptyMap
    /\ data = EmptyMap
    /\ store = [productCache |-> Absent, cacheMetadata |-> Absent]

\* C21: when a call on the store made by set, cleanup or clearCache fails,
\* the operation does not throw to its caller, and the map and the store
\* stay as the operation left them.
C21_StoreFailureNeverSurfaces ==
    [][(StoreDone /\ fails' > fails) =>
            /\ ~last'.raised
            /\ data' = data
            /\ store' = store]_vars

\* C22: a call with caching disabled (the retry) does not ask the cache: it
\* leaves the cache layer as it is and goes to the fetch of the listing
\* page; it is never a hit, and once fetchProductDetails has returned, its
\* result is in the map under the listing key as a new entry, in place of
\* any earlier one, with its write to the store started.
C22_RetryBypassesCache ==
    /\ [][\A r \in Reqs, k \in Listings : Start(r, k, FALSE) =>
            /\ UNCHANGED cacheVars
            /\ req'[r].pc = "fetch"
            /\ req'[r].primary = "pending"
            /\ req'[r].key = k]_vars
    /\ [][\A r \in Reqs :
            (~req'[r].useCache /\ req[r].pc # "set" /\ req'[r].pc = "set") =>
                /\ req[r].pc \in {"fetch", "body", "query"}
                /\ data' = [j \in DOMAIN data \cup {req'[r].key} |->
                              IF j = req'[r].key
                              THEN NewEntry(req'[r].details, now)
                              ELSE data[j]]
                /\ pending' = Append(pending, [op |-> "set", items |-> data',
                                               owner |-> r])]_vars
    /\ [](\A r \in Reqs : ~req[r].useCache =>
            /\ ~req[r].hit
            /\ req[r].pc \in {"set", "rates", "done"} => req[r].wrote)

\* a retry for a listing the cache held a valid entry of has ended: the
\* entry is a new one with the retry's result
C22_Witness ==
    \E r \in Reqs :
        /\ ~req[r].useCache
        /\ req[r].pc = "done"
        /\ req[r].key \in DOMAIN store0.productCache.items
        /\ req[r].key \in DOMAIN data
        /\ data[req[r].key].data = req[r].details
        /\ data[req[r].key].timestamp >
               store0.productCache.items[req[r].key].lastAccessed
        /\ req[r].details # store0.productCache.items[req[r].key].data
        /\ store.productCache.items = data

\* the calls of fetchExchangeRates that await an answer of the network
InFlight == {c \in Callers : fx[c].pc \in {"fetch", "json"}}

\* C23: a call of fetchExchangeRates that finds a table loaded and
\* now - lastUpdate < updateInterval returns that table and contacts no
\* source; a call contacts a source only when no table is loaded or the
\* table is as old as the interval or older.
C23_FreshTableNoRequest ==
    [][\A c \in Callers : (fx[c].pc = "idle" /\ fx'[c].pc # "idle") =>
            IF rates.loaded /\ now - rates.lastUpdate < UpdateInterval
            THEN /\ fx'[c].pc = "done"
                 /\ fx'[c].ret = "table"
                 /\ fx'[c].sent = <<>>
                 /\ rates' = rates
            ELSE /\ fx'[c].pc = "fetch"
                 /\ fx'[c].sent # <<>>
                 /\ ~rates.loaded \/ now - rates.lastUpdate >= UpdateInterval]_vars

\* a call has returned a table refreshed by the other call, without a
\* request of its own
C23_Witness ==
    \E c, d \in Callers :
        /\ c # d
        /\ fx[c].pc = "done" /\ fx[c].ret = "table" /\ fx[c].sent = <<>>
        /\ fx[d].pc = "done" /\ fx[d].ret = "table" /\ fx[d].sent # <<>>
        /\ rates.lastUpdate > T0

\* the bodies that are a table, and the one response.json() rejects with
TableBodies == {b \in Bodies : b.kind = "table"}
RejectedBody == [kind |-> "rejects", cny |-> NoTable]

\* C24: a call that refreshes contacts the sources in the order of urls,
\* each one only after the one before it has failed (a status that is not
\* ok, a rejected fetch, a body that does not parse); the first source that
\* answers with a table ends the call, and its table becomes
\* CURRENCY_CACHE.rates with lastUpdate = now.
C24_SourcesInOrder ==
    /\ [](\A c \in Callers : \A i \in DOMAIN fx[c].sent : fx[c].sent[i] = i)
    /\ [][\A c \in Callers : (fx[c].sent # <<>> /\ fx'[c].sent # fx[c].sent) =>
            /\ fx'[c].sent = Append(fx[c].sent, Len(fx[c].sent) + 1)
            /\ \/ \E outcome \in {"notOk", "rejects"} : FxFetchSettles(c, outcome)
               \/ FxJsonSettles(c, RejectedBody)]_vars
    /\ [][\A c \in Callers, b \in TableBodies : FxJsonSettles(c, b) =>
            /\ rates' = [loaded |-> TRUE, lastUpdate |-> now, table |-> b.cny]
            /\ fx'[c].pc = "done"
            /\ fx'[c].ret = "table"
            /\ fx'[c].sent = fx[c].sent]_vars

\* a refresh whose first source failed has ended with the table of the
\* second
C24_Witness ==
    \E c \in Callers :
        /\ fx[c].pc = "done"
        /\ fx[c].ret = "table"
        /\ fx[c].sent = <<1, 2>>
        /\ rates.loaded
        /\ rates.lastUpdate = now
        /\ now > T0
        /\ \A d \in Callers \ {c} : fx[d].pc = "idle"

\* the source awaited by c fails, and it is the last of urls
LastSourceFails(c) ==
    /\ fx[c].src = NumSources
    /\ \/ \E outcome \in {"notOk", "rejects"} : FxFetchSettles(c, outcome)
       \/ FxJsonSettles(c, RejectedBody)

\* C25: when the last source has failed after all the others,
\* fetchExchangeRates throws to its caller: it returns no table, neither the
\* one in place nor another, and it throws in no other case.
C25_AllSourcesFailedThrows ==
    /\ [][\A c \in Callers : LastSourceFails(c) =>
            /\ fx'[c].pc = "done"
            /\ fx'[c].ret = "throws"
            /\ rates' = rates]_vars
    /\ [](\A c \in Callers : fx[c].ret = "throws" =>
            fx[c].sent = [i \in 1..NumSources |-> i])

\* every source has failed on a call that found an old table in place
C25_Witness ==
    \E c \in Callers :
        /\ fx[c].ret = "throws"
        /\ rates.loaded
        /\ now - rates.lastUpdate >= UpdateInterval

\* C26: at most one call of fetchExchangeRates awaits the network at a
\* time: calls that find the table missing or old share one attempt.
C26_SingleFlight == Cardinality(InFlight) <= 1

\* C27: when the table in place is as old as the interval or older and the
\* last source fails after all the others, the table stays in place and
\* fetchAndUpdatePrice shows the price converted with it.
C27_StaleTableStillConverts ==
    [][(LastSourceFails("fetchAndUpdatePrice") /\ rates.loaded) =>
            /\ rates' = rates
            /\ fx'["fetchAndUpdatePrice"].badge =
                   formatCurrency(convertCurrency(fx["fetchAndUpdatePrice"].amount,
                                                  fx["fetchAndUpdatePrice"].to, rates),
                                  fx["fetchAndUpdatePrice"].to)]_vars

\* C28: every call of convertCurrency returns a number; when no table is
\* loaded, or the table has no rate for the target code, the number is the
\* amount it was given; and the call leaves CURRENCY_CACHE as it is.
C28_ConvertIdentityFallback ==
    [][ApplyConvert =>
            /\ rates' = rates
            /\ \/ call'.ret = call.arg.amount
               \/ /\ DOMAIN call'.ret = {"hundredths"}
                  /\ call'.ret.hundredths \in Nat
            /\ (~rates.loaded \/ rates.table[toLowerCase(call.arg.to)] = NoRate) =>
                   call'.ret = call.arg.amount]_vars

\* a fee-laden price was to be converted to a currency the loaded table has
\* no rate for, and came back as it was
C28_Witness ==
    /\ call.fn = "convertCurrency"
    /\ call.done
    /\ rates.loaded
    /\ call.arg.to = "eur"
    /\ rates.table["eur"] = NoRate
    /\ call.ret = call.arg.amount

\* the doubles 102.38, 102 and 103, and the agents with a rate of their own
D10238 == DoubleOfHex(<<1, 9, 9, 8, 5, 1, 14, 11, 8, 5, 1, 14, 11, 8>>, -46)
OwnRate == {"superbuy", "cssbuy", "allchinabuy"}

\* C29: calculateAgentFee returns for every agent identifier the price times
\* the agent's multiplier (superbuy 1.0238, cssbuy 1.02, allchinabuy 1.04,
\* any other 1.03); for price 100 that is 102.38 for superbuy, 102 for
\* cssbuy and 103 for an agent without a rate of its own.
C29_AgentFeeMultipliers ==
    (call.fn = "calculateAgentFee" /\ call.done) =>
        LET agent == toLowerCase(call.arg.agent)
            price == call.arg.price
        IN /\ agent = "superbuy" => call.ret = Times(price, FeeSuperbuy)
           /\ agent = "cssbuy" => call.ret = Times(price, FeeCssbuy)
           /\ agent = "allchinabuy" => call.ret = Times(price, FeeAllchinabuy)
           /\ agent \notin OwnRate => call.ret = Times(price, FeeDefault)
           /\ price = DoubleOfNat(100) =>
                /\ agent = "superbuy" => call.ret = D10238
                /\ agent = "cssbuy" => call.ret = DoubleOfNat(102)
                /\ agent \notin OwnRate => call.ret = DoubleOfNat(103)

\* the fetchPrice messages the listener has not answered yet
Unanswered(m) == bg[m].type = "fetchPrice" /\ bg[m].sent = <<>>
OkStatuses == 200..299

C31_UnreachableTabSkipped ==
    /\ [][PopSendSettles("rejects") =>
            /\ pop'.pc # "threw"
            /\ pop.i < Len(pop.tabs) => pop'.pc = "send" /\ pop'.i = pop.i + 1
            /\ pop.i = Len(pop.tabs) => pop'.pc = "done"]_vars
    /\ [](pop.pc = "done" /\ pop.handler = "save" => pop.closed)

\* the values of a sequence
Range(values) == {values[i] : i \in DOMAIN values}

\* the values of a sequence of bookmarks stand in descending order of
\* timestamp
Descending(values) ==
    \A i, j \in 1..Len(values) : i < j => values[i].timestamp >= values[j].timestamp

\* C32: the map holds at most one bookmark for a url after any calls of add
\* and remove; add(title, url) leaves for url the bookmark with that title
\* and the time of the call, and the other bookmarks as they were; remove
\* leaves none for its url; getAll returns the bookmarks of the map, each
\* once, in descending order of timestamp.
C32_BookmarksKeyedByUrl ==
    /\ [](\A url \in MarkUrls : Cardinality(Places(marks.map, url)) <= 1)
    /\ [](Descending(marks.ret))
    /\ [][\A title \in MarkTitles, url \in MarkUrls :
            (\E outcome \in Settled : MarkAdd(title, url, outcome)) =>
                /\ {b \in Range(marks'.map) : b.url = url} = {Bookmark(title, url, now)}
                /\ {b \in Range(marks'.map) : b.url # url} =
                       {b \in Range(marks.map) : b.url # url}]_vars
    /\ [][\A url \in MarkUrls :
            (\E outcome \in Settled : MarkRemove(url, outcome)) =>
                Range(marks'.map) = {b \in Range(marks.map) : b.url # url}]_vars
    /\ [][MarkGetAll =>
            /\ Len(marks'.ret) = Len(marks.map)
            /\ Range(marks'.ret) = Range(marks.map)]_vars

\* a url bookmarked on an earlier visit was added again under another title:
\* it stands first in the map and, being the newest, first in what getAll
\* returned, before a bookmark that follows it in the map
C32_Witness ==
    /\ Len(marks.map) = 2
    /\ marks.map[1] = Bookmark("b", "u1", now)
    /\ marks.map[2].timestamp < now
    /\ marks.ret = <<marks.map[1], marks.map[2]>>
    /\ marks.stored = marks.map

\* C33: the record a resolution hands to productCache.set has a platform
\* field, and the field names a configured platform: on the selection among
\* the platforms with a price and a link, on the fallback when there is
\* none, and when the fetch of the listing failed.
C33_ResolvedPriceNamesPlatform ==
    \A r \in Reqs :
        req[r].wrote =>
            /\ "platform" \in DOMAIN req[r].details
            /\ req[r].details.platform \in Platforms

\* both calls for the listing have written and ended, and no write is in
\* flight
BothFinished ==
    /\ \A r \in Twins : req[r].pc = "done" /\ req[r].wrote
    /\ pending = <<>>

\* the entry productCache.set made last for the listing: last is the record
\* of that call when both calls have ended
HoldsLastSet(entries) ==
    /\ TwinKey \in DOMAIN entries
    /\ entries[TwinKey].data = last.val

C35_LateFetchDiscarded ==
    /\ [][\A r \in Reqs : LateFetch(r) =>
            /\ req' = [req EXCEPT ![r].inflight = FALSE]
            /\ req[r].details = Unavailable
            /\ UNCHANGED <<data, store, pending, rates, fx, bg, uiVars>>]_vars
    /\ [](\A r \in Reqs : (req[r].primary = "timeout" /\ req[r].pc # "idle") =>
            /\ req[r].details = Unavailable
            /\ req[r].wrote)

\* the timer fired, the call stored and showed 'N/A' and ended, and then the
\* fetch settled
C35_Witness ==
    \E r \in Reqs :
        /\ req[r].primary = "timeout"
        /\ ~req[r].inflight
        /\ req[r].pc = "done"
        /\ req[r].badge = NA
        /\ pending = <<>>
        /\ req[r].key \in DOMAIN data
        /\ data[req[r].key].data = Unavailable

\* C36: get never returns an item of a file whose version is not
\* CACHE_CONFIG.version: the import of the settings panel rejects such a
\* file, and what the popup's import stored of it is removed by the
\* initialize() that finds the file's version in cacheMetadata.
C36_ForeignItemsNeverServed ==
    /\ (last.op = "get" /\ last.found) => last.val # ForeignPrice
    /\ (imp.pc = "done" /\ imp.file.version # Version) => imp.outcome = "rejected"

\* C37: no call of set makes the initialized map hold more than maxItems
\* entries: a set into a map that holds at most maxItems entries leaves at
\* most maxItems, whatever the key.
C37_CapacityAlways ==
    [][\A k \in Keys, v \in Payloads :
        (initialized /\ Size(data) <= MaxItems /\ Set(k, v)) =>
            Size(data') <= MaxItems]_vars

\* the popup's clearCache has completed
PopupCleared == pop.handler = "clear" /\ pop.pc = "done"

\* entries holds for k the entry the popup's clear removed from the store
ClearedEntry(entries, k) ==
    /\ pop.removed.present
    /\ k \in DOMAIN pop.removed.items
    /\ k \in DOMAIN entries
    /\ entries[k].data = pop.removed.items[k].data
    /\ entries[k].timestamp = pop.removed.items[k].timestamp

\* C38: once the popup's clearCache has completed, a get of the running
\* content script finds none of the entries the clear removed, and a write
\* of the content script's set that completes leaves none of them in the
\* stored productCache.
C38_PopupClearHonoured ==
    [][PopupCleared =>
        /\ \A k \in Listings :
               (Get(k) /\ ClearedEntry(data, k)) => ~last'.found
        /\ (StoreDone /\ store'.productCache.present) =>
               \A k \in Keys : ~ClearedEntry(store'.productCache.items, k)]_vars

\* the map holds an 'N/A' record for the listing
NAStored == TwinKey \in DOMAIN data /\ data[TwinKey].data.price = NA

\* the step is call r handing its record to productCache.set
Writes(r) == req[r].pc # "set" /\ req'[r].pc = "set"

\* a call that ends with price 'N/A' stores its record under the listing, and
\* a call with useCache that finds the record there, younger than maxAge,
\* takes it and asks nothing of the network
NAStoredAndServed ==
    /\ \A r \in Twins :
           (Writes(r) /\ req'[r].details.price = NA) =>
               data'[req'[r].key] = NewEntry(req'[r].details, now)
    /\ \A r \in Twins :
           (Start(r, TwinKey, TRUE) /\ NAStored /\ now - data[TwinKey].timestamp < MaxAge) =>
               /\ req'[r].hit
               /\ req'[r].details = data[TwinKey].data
               /\ req'[r].pc = "done"
               /\ req'[r].primary = "none"
               /\ ~req'[r].inflight
               /\ pending' = pending

\* the 'N/A' record of the listing is in the map after the step as it was
\* before
NAStays ==
    /\ TwinKey \in DOMAIN data'
    /\ data'[TwinKey].data = data[TwinKey].data
    /\ data'[TwinKey].timestamp = data[TwinKey].timestamp

\* C39 as stated: a call that ends with 'N/A' (the timeout of the fetch
\* included) stores the record under the listing; every later call with
\* useCache takes it from the cache without a request while it is younger
\* than maxAge; nothing but a retry (useCache false) replaces it.
C39_UnavailableCachedUntilRetry ==
    [][/\ NAStoredAndServed
       /\ NAStored => (NAStays \/ \E r \in Twins : Writes(r) /\ ~req[r].useCache)]_vars

\* C39 amended: the same, the record being replaced by nothing but the
\* write of a call that did not take it from the cache: a retry, or a call
\* for the listing that was under way when it was stored.
C39_UnavailableCachedUntilWritten ==
    [][/\ NAStoredAndServed
       /\ NAStored => (NAStays \/ \E r \in Twins : Writes(r) /\ ~req[r].hit)]_vars

\* the timer ended one call with 'N/A'; a later call took the record from
\* the cache and showed it
C39_Witness ==
    \E r, q \in Twins :
        /\ req[r].primary = "timeout"
        /\ req[r].pc = "done"
        /\ req[q].hit
        /\ req[q].pc = "done"
        /\ req[q].details = Unavailable
        /\ req[q].badge = NA
        /\ data[TwinKey].data = Unavailable

\* a storage call of one of the operations named is in flight
WriteInFlight(names) == \E i \in 1..Len(pending) : pending[i].op \in names

\* set was one of the last two calls other than get, none of its writes is
\* in flight and no storage call failed: a set has completed
SetCompleted ==
    /\ last.op = "set" \/ last.prevOp = "set"
    /\ ~WriteInFlight({"set"})
    /\ fails = 0

\* the stored productCache (no entries when it is removed) has the keys of
\* the map, each with the payload and the timestamp it has in the map
StoreMirrorsMap ==
    /\ DOMAIN StoredItems = DOMAIN data
    /\ \A k \in DOMAIN data :
           /\ StoredItems[k].data = data[k].data
           /\ StoredItems[k].timestamp = data[k].timestamp

\* C40 as stated: whenever no write of a set or of a cleanup is in flight,
\* a set has completed and no storage call has failed, the stored
\* productCache has the keys, payloads and timestamps of the map.
C40_StoreMirrorsMemory ==
    (~WriteInFlight({"set", "cleanup"}) /\ SetCompleted /\ fails = 0) => StoreMirrorsMap

\* C40 amended: whenever no write of a set or of a cleanup and no remove of
\* a clearCache is in flight and no storage call has failed, the stored
\* productCache has the keys, payloads and timestamps of the map, whatever
\* the order in which overlapping sets were called.
C40_StoreMirrorsMemoryAtRest ==
    (~WriteInFlight({"set", "cleanup", "remove"}) /\ fails = 0) => StoreMirrorsMap

\* two sets for different keys have completed, the second called while the
\* write of the first was in flight or after it, and nothing is in flight
C40_Witness ==
    /\ pending = <<>>
    /\ fails = 0
    /\ last.op = "set"
    /\ last.prevOp = "set"
    /\ store.productCache.present
    /\ \E k \in DOMAIN data : k # last.key /\ data[k].timestamp > T0 - MaxAge
    /\ StoreMirrorsMap

====
